---- MODULE Spec2Model ----
(***************************************************************************)
(* Flood risk evaluation pipeline of the Hyperlocal Urban Flood Forecaster *)
(* (app/services/flood_risk.py), its alert subscriptions (app/crud.py),    *)
(* the notification service (app/services/notification.py) and the        *)
(* endpoints that drive them (app/routers).                                *)
(*                                                                         *)
(* Units.  Python floats are modelled as fixed-point integers in           *)
(* thousandths: 35.2 mm is 35200, 15.5 m is 15500, latitude 40.712 is      *)
(* 40712.  Risk points (10, 20, ... 100) are plain integers.               *)
(* A Python value that may be None is a record [none, v].                  *)
(***************************************************************************)
EXTENDS Integers, Sequences, FiniteSets, TLC

VARIABLES
    google_elevation_api_key, \* FloodRiskService.google_elevation_api_key
    strHash,                  \* hash() of the coordinate strings hashed so far in this process
    pc,                       \* "idle" | "returned": position of the calculate_flood_risk call
    request,                  \* arguments of the calculate_flood_risk call
    calls,                    \* provider requests issued by the call, in order
    weather_response,         \* what the /weather request produced (or NoWeather)
    forecast_response,        \* what the /forecast request produced (or NoForecast)
    elevation_response,       \* what the elevation request produced (or NoElevation)
    rainfall,                 \* local `rainfall` of calculate_flood_risk (line 266)
    elevation,                \* local `elevation` of calculate_flood_risk (line 267)
    result,                   \* what calculate_flood_risk returned, or that it raised
    scoreLast,                \* the latest direct calculate_risk_score call and its result
    scoreKept,                \* an earlier calculate_risk_score call, kept for comparison
    notification_service,     \* credentials of the NotificationService instance (notification.py 17-24)
    last_subscription_id,     \* the latest id the alert_subscriptions table issued
    alert_subscriptions,      \* rows of the alert_subscriptions table, by id
    reactivated,              \* ids of the active rows that were switched off earlier
    flood_events,             \* rows of the flood_events table, by id
    api,                      \* the latest endpoint or store call and its outcome
    alert,                    \* the latest send_flood_alert call and its outcome
    invocation,               \* the external calls of a pipeline run, one at a time
    mock_calls,               \* every _mock_elevation call made so far, over all processes
    tasks,                    \* the create_flood_event coroutines of the event loop, by task
    frames                    \* the local variables of those coroutines, by frame

vars == << google_elevation_api_key, strHash, pc, request, calls, weather_response,
           forecast_response, elevation_response, rainfall, elevation, result,
           scoreLast, scoreKept, notification_service, last_subscription_id,
           alert_subscriptions, reactivated, flood_events, api, alert, invocation,
           mock_calls, tasks, frames >>

pipelineVars == << pc, request, calls, weather_response, forecast_response,
                   elevation_response, rainfall, elevation, result >>

scoreVars == << scoreLast, scoreKept >>

historyVars == << mock_calls, tasks, frames >>

storeVars == << last_subscription_id, alert_subscriptions, reactivated, flood_events >>

alertingVars == << notification_service, last_subscription_id, alert_subscriptions,
                   reactivated, flood_events, api, alert, invocation,
                   mock_calls, tasks, frames >>

-----------------------------------------------------------------------------
(* Values *)

Milli(x) == x * 1000

Num(x) == [none |-> FALSE, v |-> x]

PyNone == [none |-> TRUE, v |-> 0]

Abs(x) == IF x < 0 THEN -x ELSE x

Max(a, b) == IF a >= b THEN a ELSE b

-----------------------------------------------------------------------------
(* RiskScorer: FloodRiskService.calculate_risk_score *)

\* Lines 207-216 with `<=` in place of `<`.
rainfall_score_le(rainfall_mm) ==
    IF rainfall_mm <= Milli(5) THEN 10
    ELSE IF rainfall_mm <= Milli(15) THEN 20
    ELSE IF rainfall_mm <= Milli(30) THEN 35
    ELSE IF rainfall_mm <= Milli(50) THEN 50
    ELSE 60

\* Lines 207-216 with the points of the third and fourth branch exchanged.
rainfall_score_swapped(rainfall_mm) ==
    IF rainfall_mm < Milli(5) THEN 10
    ELSE IF rainfall_mm < Milli(15) THEN 20
    ELSE IF rainfall_mm < Milli(30) THEN 50
    ELSE IF rainfall_mm < Milli(50) THEN 35
    ELSE 60

\* flood_risk.py 207-216
rainfall_score(rainfall_mm) ==
    IF rainfall_mm < Milli(5) THEN 10
    ELSE IF rainfall_mm < Milli(15) THEN 20
    ELSE IF rainfall_mm < Milli(30) THEN 35
    ELSE IF rainfall_mm < Milli(50) THEN 50
    ELSE 60

\* Lines 220-229 with 50 points in the first branch.
elevation_score_50(elevation_m) ==
    IF elevation_m < Milli(10) THEN 50
    ELSE IF elevation_m < Milli(50) THEN 30
    ELSE IF elevation_m < Milli(100) THEN 20
    ELSE IF elevation_m < Milli(200) THEN 10
    ELSE 5

\* flood_risk.py 220-229
elevation_score(elevation_m) ==
    IF elevation_m < Milli(10) THEN 40
    ELSE IF elevation_m < Milli(50) THEN 30
    ELSE IF elevation_m < Milli(100) THEN 20
    ELSE IF elevation_m < Milli(200) THEN 10
    ELSE 5

\* Lines 235-242 with `<` in place of `<=`.
severity_of_lt(total_score) ==
    IF total_score < 25 THEN "Low"
    ELSE IF total_score < 50 THEN "Medium"
    ELSE IF total_score < 75 THEN "High"
    ELSE "Critical"

\* flood_risk.py 235-242
severity_of(total_score) ==
    IF total_score <= 25 THEN "Low"
    ELSE IF total_score <= 50 THEN "Medium"
    ELSE IF total_score <= 75 THEN "High"
    ELSE "Critical"

\* calculate_risk_score keeping the highest rainfall points it has seen so far in
\* the service object (state carried from one call to the next).
calculate_risk_score_stateful(rainfall_mm, elevation_m) ==
    LET carried == IF scoreLast.called THEN rainfall_score(scoreLast.rainfall_mm) ELSE 0
        total_score == Max(rainfall_score(rainfall_mm.v), carried)
                       + elevation_score(elevation_m.v)
    IN  IF rainfall_mm.none \/ elevation_m.none
        THEN [exc |-> TRUE, risk_score |-> 0, severity |-> "Low"]
        ELSE [exc |-> FALSE, risk_score |-> total_score, severity |-> severity_of(total_score)]

\* flood_risk.py 176-244.  The comparisons of lines 207 and 220 raise TypeError
\* on None (exc).
calculate_risk_score(rainfall_mm, elevation_m) ==
    IF rainfall_mm.none \/ elevation_m.none
    THEN [exc |-> TRUE, risk_score |-> 0, severity |-> "Low"]
    ELSE LET total_score == rainfall_score(rainfall_mm.v) + elevation_score(elevation_m.v)
         IN  [exc |-> FALSE, risk_score |-> total_score, severity |-> severity_of(total_score)]

-----------------------------------------------------------------------------
(* Provider responses.  Each record says how the HTTP exchange ended       *)
(* ("timeout" = httpx transport error within timeout=10.0, "status" =      *)
(* raise_for_status() failed, "badjson" = response.json() failed, "ok" =   *)
(* a decoded JSON document) and, for "ok", the fields the code reads.      *)

MaxForecastLen == 5   \* longest forecast list the provider returns here

\* No request was issued, so there is no response.
NoWeather == [kind |-> "not_called", rain |-> "absent", has1h |-> FALSE, v |-> PyNone]

WeatherFailures ==
    { [kind |-> k, rain |-> "absent", has1h |-> FALSE, v |-> PyNone] :
        k \in {"timeout", "status", "badjson"} }

WeatherDocuments ==
    { [kind |-> "ok", rain |-> "absent",  has1h |-> FALSE, v |-> PyNone],   \* {}
      [kind |-> "ok", rain |-> "notdict", has1h |-> FALSE, v |-> PyNone],   \* {"rain": 3}
      [kind |-> "ok", rain |-> "dict",    has1h |-> FALSE, v |-> PyNone] }  \* {"rain": {}}
    \cup
    { [kind |-> "ok", rain |-> "dict", has1h |-> TRUE, v |-> x] :           \* {"rain": {"1h": x}}
        x \in {PyNone, Num(0), Num(2500), Num(35200), Num(62000)} }

WeatherResponses == WeatherFailures \cup WeatherDocuments

\* One element of the forecast "list": has it a "rain" object, has that a "3h" key.
NoRainEntry == [rain |-> FALSE, has3h |-> FALSE, v |-> PyNone]

Rain3h(x) == [rain |-> TRUE, has3h |-> TRUE, v |-> x]

ForecastEntries == {NoRainEntry, Rain3h(Num(20000))}

RECURSIVE SeqsUpTo(_, _)
SeqsUpTo(S, n) ==
    IF n = 0 THEN {<< >>}
    ELSE LET shorter == SeqsUpTo(S, n - 1)
         IN  shorter \cup { Append(q, x) : q \in {p \in shorter : Len(p) = n - 1}, x \in S }

NoForecast == [kind |-> "not_called", haslist |-> FALSE, list |-> << >>]

ForecastFailures ==
    { [kind |-> k, haslist |-> FALSE, list |-> << >>] : k \in {"timeout", "status", "badjson"} }

ForecastDocuments ==
    { [kind |-> "ok", haslist |-> FALSE, list |-> << >>] }                  \* no "list" key
    \cup { [kind |-> "ok", haslist |-> TRUE, list |-> l] :
             l \in SeqsUpTo(ForecastEntries, MaxForecastLen) }
    \cup { [kind |-> "ok", haslist |-> TRUE, list |-> << Rain3h(PyNone) >>],            \* "3h": null
           [kind |-> "ok", haslist |-> TRUE,
            list |-> << [rain |-> TRUE, has3h |-> FALSE, v |-> PyNone] >>] }            \* "rain": {}

ForecastResponses == ForecastFailures \cup ForecastDocuments

NoElevation == [kind |-> "not_called", status |-> "", results |-> << >>]

ElevationFailures ==
    { [kind |-> k, status |-> "", results |-> << >>] : k \in {"timeout", "status", "badjson"} }

ElevationDocuments ==
    { [kind |-> "ok", status |-> "OK", results |-> r] :
        r \in { << >>,
                << [haselev |-> FALSE, v |-> PyNone] >>,
                << [haselev |-> TRUE, v |-> PyNone] >>,
                << [haselev |-> TRUE, v |-> Num(-430000)] >>,
                << [haselev |-> TRUE, v |-> Num(15500)] >>,
                << [haselev |-> TRUE, v |-> Num(250000)] >> } }
    \cup
    { [kind |-> "ok", status |-> "REQUEST_DENIED", results |-> r] :
        r \in { << >>, << [haselev |-> TRUE, v |-> Num(15500)] >> } }

ElevationResponses == ElevationFailures \cup ElevationDocuments

-----------------------------------------------------------------------------
(* EnvironmentalDataResolver: get_rainfall_data, _get_forecast_rainfall,   *)
(* get_elevation_data, _mock_elevation                                     *)

\* `rainfall == 0.0` (line 66): None == 0.0 is False.
PyIsZero(x) == ~x.none /\ x.v = 0

\* Lines 56-63 of get_rainfall_data: the /weather request and the extraction of
\* rain["1h"].  exc: an exception left the block (HTTPError for a timeout or a
\* failed raise_for_status, ValueError for undecodable JSON, AttributeError when
\* data["rain"] has no .get).
current_rainfall(wx) ==
    IF wx.kind # "ok" THEN [exc |-> TRUE, val |-> PyNone]
    ELSE IF wx.rain = "absent" THEN [exc |-> FALSE, val |-> Num(0)]
    ELSE IF wx.rain = "notdict" THEN [exc |-> TRUE, val |-> PyNone]
    ELSE IF ~wx.has1h THEN [exc |-> FALSE, val |-> Num(0)]
    ELSE [exc |-> FALSE, val |-> wx.v]

\* Lines 106-110: total_rainfall over the first n entries of data["list"].
\* Adding None to a float raises TypeError (exc).
RECURSIVE forecast_total(_, _)
forecast_total(list, n) ==
    IF n = 0 THEN [exc |-> FALSE, total |-> 0]
    ELSE LET before == forecast_total(list, n - 1)
             forecast == list[n]
             amount == IF forecast.has3h THEN forecast.v ELSE Num(0)
         IN  IF before.exc THEN before
             ELSE IF ~forecast.rain THEN before
             ELSE IF amount.none THEN [exc |-> TRUE, total |-> 0]
             ELSE [exc |-> FALSE, total |-> before.total + amount.v]

\* A slice that keeps the whole list.
ForecastWindow_all(list) == Len(list)

\* data["list"][:4]
ForecastWindow(list) == IF Len(list) < 4 THEN Len(list) ELSE 4

\* flood_risk.py 79-116.  Every exception is caught at line 114 and gives 0.0.
\* total / 4 is exact in binary floating point; the modelled amounts are
\* multiples of 0.004 mm, so the integer quotient is exact too.
_get_forecast_rainfall(latitude, longitude, fc) ==
    IF fc.kind # "ok" THEN Num(0)
    ELSE IF ~fc.haslist THEN Num(0)
    ELSE LET t == forecast_total(fc.list, ForecastWindow(fc.list))
         IN  IF t.exc THEN Num(0)
             ELSE IF t.total > 0 THEN Num(t.total \div 4) ELSE Num(0)

\* Line 66-67: is the forecast request issued after this /weather response.
ForecastQueried(wx) ==
    LET cur == current_rainfall(wx) IN ~cur.exc /\ PyIsZero(cur.val)

\* flood_risk.py 34-77.  val: the value returned; calls: the requests issued.
get_rainfall_data(latitude, longitude, wx, fc) ==
    LET cur == current_rainfall(wx)
    IN  IF cur.exc
        THEN [val |-> Num(Milli(5)), calls |-> << "weather" >>]
        ELSE IF PyIsZero(cur.val)
        THEN [val |-> _get_forecast_rainfall(latitude, longitude, fc),
              calls |-> << "weather", "forecast" >>]
        ELSE [val |-> cur.val, calls |-> << "weather" >>]

\* Values of settings.GOOGLE_ELEVATION_API_KEY (config.py 18): unset (None),
\* empty, the placeholder of the sample configuration, a real key.
Placeholder == "your_google_elevation_api_key_here"

ElevationKeys ==
    { [none |-> TRUE,  s |-> ""],
      [none |-> FALSE, s |-> ""],
      [none |-> FALSE, s |-> Placeholder],
      [none |-> FALSE, s |-> "AIza-live-key"] }

\* Line 130, with the placeholder comparison left out.
KeyUnconfigured_no_placeholder(key) == key.none \/ key.s = ""

\* Line 130: `not key or key == "your_google_elevation_api_key_here"`.
KeyUnconfigured(key) == key.none \/ key.s = "" \/ key.s = Placeholder

\* flood_risk.py 158-174.  h is hash(f"{latitude},{longitude}").
_mock_elevation(latitude, longitude, h) ==
    LET base_elevation == Abs(latitude) * 10
        variation == Milli((h % 100) - 50)
    IN  Max(0, base_elevation + variation)

\* flood_risk.py 118-156.  mock: the value came from _mock_elevation.
get_elevation_data(latitude, longitude, key, el, h) ==
    LET mock == [val |-> Num(_mock_elevation(latitude, longitude, h)), mock |-> TRUE]
    IN  IF KeyUnconfigured(key)
        THEN [val |-> mock.val, mock |-> TRUE, calls |-> << >>]
        ELSE LET got ==
                 IF el.kind # "ok" THEN mock                       \* caught at line 154
                 ELSE IF el.status = "OK" /\ el.results # << >>
                 THEN IF ~el.results[1].haselev THEN mock          \* KeyError, line 154
                      ELSE [val |-> el.results[1].v, mock |-> FALSE]
                 ELSE mock
             IN  [val |-> got.val, mock |-> got.mock, calls |-> << "elevation" >>]

-----------------------------------------------------------------------------
(* FloodRiskService.calculate_flood_risk *)

\* Lines 266-267, with a truthiness test in place of `is not None`.
OverrideSupplied_truthy(override) == ~override.none /\ override.v # 0

\* Lines 266-267: `x_override if x_override is not None else await ...`.
OverrideSupplied(override) == ~override.none

\* Line 278 (and 281).
rainfall_contribution(rainfall_mm) ==
    IF rainfall_mm > Milli(30) THEN "High"
    ELSE IF rainfall_mm > Milli(15) THEN "Medium"
    ELSE "Low"

\* Line 279 (and 282).
elevation_contribution(elevation_m) ==
    IF elevation_m < Milli(50) THEN "High risk"
    ELSE IF elevation_m < Milli(100) THEN "Medium risk"
    ELSE "Low risk"

NoResult ==
    [raised |-> FALSE, rainfall_mm |-> PyNone, elevation_m |-> PyNone, risk_score |-> 0,
     severity |-> "Low", rainfall_contribution |-> "Low", elevation_contribution |-> "Low risk"]

\* flood_risk.py 246-284.  wx, fc, el: what each provider request produces if it
\* is issued; h: hash of the coordinate string.  hashed: _mock_elevation ran.
calculate_flood_risk(latitude, longitude, rainfall_override, elevation_override, key, wx, fc, el, h) ==
    LET rain == IF OverrideSupplied(rainfall_override)
                THEN [val |-> rainfall_override, calls |-> << >>]
                ELSE get_rainfall_data(latitude, longitude, wx, fc)
        elev == IF OverrideSupplied(elevation_override)
                THEN [val |-> elevation_override, mock |-> FALSE, calls |-> << >>]
                ELSE get_elevation_data(latitude, longitude, key, el, h)
        scored == calculate_risk_score(rain.val, elev.val)
    IN  [ rainfall |-> rain.val,
          elevation |-> elev.val,
          calls |-> rain.calls \o elev.calls,
          hashed |-> elev.mock,
          result |->
              IF scored.exc
              THEN [NoResult EXCEPT !.raised = TRUE]
              ELSE [raised |-> FALSE,
                    rainfall_mm |-> rain.val,
                    elevation_m |-> elev.val,
                    risk_score |-> scored.risk_score,
                    severity |-> scored.severity,
                    rainfall_contribution |-> rainfall_contribution(rain.val.v),
                    elevation_contribution |-> elevation_contribution(elev.val.v)] ]

-----------------------------------------------------------------------------
(* Inputs *)

\* (latitude, longitude) in thousandths of a degree: New York (test_api.py 34-35)
\* and a point near the equator.
Locations ==
    { [latitude |-> 40712, longitude |-> -74006],
      [latitude |-> 1300,  longitude |-> 103800] }

\* rainfall_mm of FloodEventCreate is None or >= 0 (schemas.py 36).
RainfallOverrides == {PyNone, Num(0), Num(30000), Num(35200)}

\* elevation_m of FloodEventCreate is None or any float (schemas.py 37).
ElevationOverrides == {PyNone, Num(0), Num(15500), Num(-5000)}

\* Values hash() may give a coordinate string in one process.
HashValues == {-200, 99}

HashChoices(loc) == IF loc \in DOMAIN strHash THEN {strHash[loc]} ELSE HashValues

NoRequest ==
    [latitude |-> 0, longitude |-> 0, rainfall_override |-> PyNone,
     elevation_override |-> PyNone]

\* Arguments of the direct calculate_risk_score calls: every bin boundary, its
\* predecessor, and the values of the spec's example.
ScoreRainfalls ==
    {0, 4999, 5000, 14999, 15000, 29999, 30000, 35200, 49999, 50000}

ScoreElevations ==
    {-1000, 0, 9999, 10000, 15500, 49999, 50000, 99999, 100000, 199999, 200000}

NoScore ==
    [called |-> FALSE, rainfall_mm |-> 0, elevation_m |-> 0, risk_score |-> 0,
     severity |-> "Low", between |-> FALSE]

-----------------------------------------------------------------------------
(* NotificationService (app/services/notification.py) *)

\* The credentials read from the settings; each is modelled by whether it is a
\* non-empty string.  The settings' defaults leave all of them unset.
Unconfigured ==
    [twilio_sid |-> FALSE, twilio_token |-> FALSE, twilio_phone |-> FALSE,
     smtp_email |-> FALSE, smtp_password |-> FALSE]

NotificationServices ==
    { Unconfigured,
      [twilio_sid |-> TRUE, twilio_token |-> TRUE, twilio_phone |-> TRUE,
       smtp_email |-> TRUE, smtp_password |-> TRUE],
      [twilio_sid |-> TRUE, twilio_token |-> FALSE, twilio_phone |-> TRUE,
       smtp_email |-> TRUE, smtp_password |-> TRUE],
      [twilio_sid |-> TRUE, twilio_token |-> TRUE, twilio_phone |-> TRUE,
       smtp_email |-> TRUE, smtp_password |-> FALSE] }

\* What the POST to the Twilio Messages endpoint produces: no answer within
\* the timeout (or a connection error), or an HTTP status.
NoSms == [kind |-> "not_called", code |-> 0]

SmsResponses ==
    { [kind |-> "timeout", code |-> 0],
      [kind |-> "status", code |-> 201],
      [kind |-> "status", code |-> 401] }

\* What the SMTP session (connect, starttls, login, send_message) produces.
NoSmtp == "not_called"

SmtpOutcomes == {"sent", "error"}

\* notification.py 37: all three Twilio credentials are set.
SmsRequested(svc) == svc.twilio_sid /\ svc.twilio_token /\ svc.twilio_phone

\* notification.py 80: both SMTP credentials are set.
SmtpRequested(svc) == svc.smtp_email /\ svc.smtp_password

\* What a send_sms / send_email call does: it returns a bool, or raises.
Returns(b) == [raised |-> FALSE, ok |-> b]

Raises == [raised |-> TRUE, ok |-> FALSE]

\* send_sms whose request is made outside the try block.
send_sms_uncaught(svc, resp) ==
    IF ~SmsRequested(svc) THEN Returns(FALSE)
    ELSE IF resp.kind # "status" THEN Raises
    ELSE Returns(resp.code = 201)

\* send_sms: True only for status 201; False without credentials, for any
\* other status and for any exception (timeout included).
send_sms(svc, resp) ==
    IF ~SmsRequested(svc) THEN Returns(FALSE)
    ELSE IF resp.kind # "status" THEN Returns(FALSE)
    ELSE Returns(resp.code = 201)

\* send_email: True when the SMTP session completes; False without
\* credentials and for any exception.
send_email(svc, outcome) ==
    IF ~SmtpRequested(svc) THEN Returns(FALSE)
    ELSE Returns(outcome = "sent")

\* An Optional[List[str]] argument: None, or a list.
NoList == [none |-> TRUE, list |-> << >>]

ListOf(l) == [none |-> FALSE, list |-> l]

\* A fallback address in place of an absent or empty list.
Recipients_default(l) ==
    IF ~l.none /\ l.list # << >> THEN l.list ELSE << "ops@example.org" >>

\* `if phone_numbers:` / `if emails:` followed by the loop over the list.
Recipients(l) == IF ~l.none /\ l.list # << >> THEN l.list ELSE << >>

\* notification.py 199-206: one send_sms per phone number, in order.
sms_loop(svc, phone_numbers, sms) ==
    [i \in 1..Len(Recipients(phone_numbers)) |->
        [channel |-> "sms", to |-> Recipients(phone_numbers)[i],
         requested |-> SmsRequested(svc), sent |-> send_sms(svc, sms[i])]]

\* notification.py 208-215: one send_email per address, in order.
email_loop(svc, emails, smtp) ==
    [i \in 1..Len(Recipients(emails)) |->
        [channel |-> "email", to |-> Recipients(emails)[i],
         requested |-> SmtpRequested(svc), sent |-> send_email(svc, smtp[i])]]

\* A send raised: nothing in send_flood_alert catches it.
Raised(attempts) == \E i \in 1..Len(attempts) : attempts[i].sent.raised

\* The attempts of a loop that are made: all of them, or those up to the
\* first one that raises.
Made(attempts) ==
    IF Raised(attempts)
    THEN SubSeq(attempts, 1, CHOOSE i \in 1..Len(attempts) :
                                 /\ attempts[i].sent.raised
                                 /\ \A j \in 1..(i - 1) : ~attempts[j].sent.raised)
    ELSE attempts

\* Number of attempts that returned the given bool.
Tally(attempts, ok) ==
    Cardinality({i \in 1..Len(attempts) :
                    ~attempts[i].sent.raised /\ attempts[i].sent.ok = ok})

NoResults == [sms_sent |-> 0, sms_failed |-> 0, emails_sent |-> 0, emails_failed |-> 0]

\* send_flood_alert that returns after the SMS loop when an SMS failed.
send_flood_alert_sms_gates_email(svc, phone_numbers, emails, sms, smtp) ==
    LET texts == Made(sms_loop(svc, phone_numbers, sms))
        mails == IF Raised(texts) \/ Tally(texts, FALSE) > 0 THEN << >>
                 ELSE Made(email_loop(svc, emails, smtp))
    IN  [attempts |-> texts \o mails,
         raised |-> Raised(texts) \/ Raised(mails),
         results |-> [sms_sent |-> Tally(texts, TRUE),
                      sms_failed |-> Tally(texts, FALSE),
                      emails_sent |-> Tally(mails, TRUE),
                      emails_failed |-> Tally(mails, FALSE)]]

\* send_flood_alert (notification.py 111-217): the attempts it makes, in
\* order, and the counters it returns (or has reached when a send raises).
send_flood_alert(svc, phone_numbers, emails, sms, smtp) ==
    LET texts == Made(sms_loop(svc, phone_numbers, sms))
        mails == IF Raised(texts) THEN << >>
                 ELSE Made(email_loop(svc, emails, smtp))
    IN  [attempts |-> texts \o mails,
         raised |-> Raised(texts) \/ Raised(mails),
         results |-> [sms_sent |-> Tally(texts, TRUE),
                      sms_failed |-> Tally(texts, FALSE),
                      emails_sent |-> Tally(mails, TRUE),
                      emails_failed |-> Tally(mails, FALSE)]]

\* The responses the providers give to one send_flood_alert call: one per
\* request the call issues.
SmsResponsesFor(svc, phone_numbers) ==
    IF SmsRequested(svc)
    THEN [1..Len(Recipients(phone_numbers)) -> SmsResponses]
    ELSE {[i \in 1..Len(Recipients(phone_numbers)) |-> NoSms]}

SmtpOutcomesFor(svc, emails) ==
    IF SmtpRequested(svc)
    THEN [1..Len(Recipients(emails)) -> SmtpOutcomes]
    ELSE {[i \in 1..Len(Recipients(emails)) |-> NoSmtp]}

NoAlert ==
    [called |-> FALSE, phone_numbers |-> NoList, emails |-> NoList,
     attempts |-> << >>, raised |-> FALSE, results |-> NoResults]

-----------------------------------------------------------------------------
(* Alert subscriptions and flood events (app/crud.py, app/models.py) *)

\* An Optional[str] value.
NoStr == [none |-> TRUE, s |-> ""]

Str(s) == [none |-> FALSE, s |-> s]

\* `if sub.email` / `if not subscription.email`: neither None nor "".
Truthy(x) == ~x.none /\ x.s # ""

\* crud.py 261-262, 276: severity_order.get(name, 0).
severity_order_get(name) ==
    CASE name = "Low" -> 0
      [] name = "Medium" -> 1
      [] name = "High" -> 2
      [] name = "Critical" -> 3
      [] OTHER -> 0

\* The active filter that lets every row through.
ActiveRow_all(sub) == TRUE

\* crud.py 264-266: filter(AlertSubscription.is_active == 1); a NULL is not 1.
ActiveRow(sub) == sub.is_active = Num(1)

\* km per degree in the distance approximation of crud.py 274.
KmPerDegree == 111

\* The radius test without the conversion from degrees to km.
WithinRadius_degrees(sub, latitude, longitude) ==
    LET lat_diff == Abs(sub.latitude - latitude)
        lon_diff == Abs(sub.longitude - longitude)
    IN  /\ sub.radius_km.v >= 0
        /\ (lat_diff * lat_diff + lon_diff * lon_diff)
              <= sub.radius_km.v * sub.radius_km.v

\* crud.py 272-274, 278: ((lat_diff**2 + lon_diff**2) ** 0.5) * 111 <= radius_km.
\* Both sides of the comparison are >= 0 when the radius is, so the squares
\* are compared; degrees and km are both in thousandths.
WithinRadius(sub, latitude, longitude) ==
    LET lat_diff == Abs(sub.latitude - latitude)
        lon_diff == Abs(sub.longitude - longitude)
    IN  /\ sub.radius_km.v >= 0
        /\ (lat_diff * lat_diff + lon_diff * lon_diff) * KmPerDegree * KmPerDegree
              <= sub.radius_km.v * sub.radius_km.v

\* The severity test with the comparison turned round.
SeverityReached_le(sub, min_severity) ==
    severity_order_get(min_severity) <= severity_order_get(sub.min_severity)

\* crud.py 262, 276, 278: event_severity_level >= sub_severity_level.
SeverityReached(sub, min_severity) ==
    severity_order_get(min_severity) >= severity_order_get(sub.min_severity)

\* The ids of a set, in ascending order (the order the rows were inserted).
RECURSIVE SortedIds(_)
SortedIds(S) ==
    IF S = {} THEN << >>
    ELSE LET m == CHOOSE x \in S : \A y \in S : x <= y
         IN  << m >> \o SortedIds(S \ {m})

\* get_subscriptions_near_location (crud.py 242-281): the ids of the rows it
\* returns; it raises when it compares the distance with a NULL radius_km.
get_subscriptions_near_location(rows, latitude, longitude, min_severity) ==
    LET active == {id \in DOMAIN rows : ActiveRow(rows[id])}
    IN  IF \E id \in active : rows[id].radius_km.none
        THEN [raised |-> TRUE, ids |-> << >>]
        ELSE [raised |-> FALSE,
              ids |-> SortedIds({id \in active :
                                    /\ WithinRadius(rows[id], latitude, longitude)
                                    /\ SeverityReached(rows[id], min_severity)})]

\* create_subscription (crud.py 205-213): the row it inserts.
create_subscription(subscription) ==
    [email |-> subscription.email,
     phone |-> subscription.phone,
     latitude |-> subscription.latitude,
     longitude |-> subscription.longitude,
     radius_km |-> Num(subscription.radius_km),
     min_severity |-> subscription.min_severity,
     is_active |-> Num(1)]

\* A field of AlertSubscriptionUpdate: absent from the request, or given.
Unset(v) == [set |-> FALSE, val |-> v]

Given(v) == [set |-> TRUE, val |-> v]

\* An update request that sets nothing.
EmptyUpdate ==
    [email |-> Unset(NoStr), phone |-> Unset(NoStr), radius_km |-> Unset(PyNone),
     min_severity |-> Unset(""), is_active |-> Unset("null")]

\* The Integer column is_active written from an Optional[bool].
BoolColumn(b) ==
    CASE b = "true" -> Num(1)
      [] b = "false" -> Num(0)
      [] OTHER -> PyNone

\* update_subscription (crud.py 294-296): setattr for every field the request
\* gives (exclude_unset), whatever its value.
update_subscription(row, subscription_update) ==
    [email |-> IF subscription_update.email.set
               THEN subscription_update.email.val ELSE row.email,
     phone |-> IF subscription_update.phone.set
               THEN subscription_update.phone.val ELSE row.phone,
     latitude |-> row.latitude,
     longitude |-> row.longitude,
     radius_km |-> IF subscription_update.radius_km.set
                   THEN subscription_update.radius_km.val ELSE row.radius_km,
     min_severity |-> IF subscription_update.min_severity.set
                      THEN subscription_update.min_severity.val ELSE row.min_severity,
     is_active |-> IF subscription_update.is_active.set
                   THEN BoolColumn(subscription_update.is_active.val)
                   ELSE row.is_active]

\* The function f without the argument a.
Without(f, a) == [x \in DOMAIN f \ {a} |-> f[x]]

-----------------------------------------------------------------------------
(* Requests to the subscription endpoints *)

\* Most subscriptions ever created.
MaxSubscriptions == 2

\* A latitude field without the le=90 bound.
ValidLatitude_ge_only(latitude) == -Milli(90) <= latitude

\* schemas.py 25, 66, 145: latitude has ge=-90, le=90.
ValidLatitude(latitude) == -Milli(90) <= latitude /\ latitude <= Milli(90)

\* schemas.py 26, 67, 146: longitude has ge=-180, le=180.
ValidLongitude(longitude) == -Milli(180) <= longitude /\ longitude <= Milli(180)

\* schemas.py 147: radius_km has ge=0.1, le=50.
ValidRadius(radius_km) == 100 <= radius_km /\ radius_km <= Milli(50)

\* The four severity tiers, lowest first.
Tiers == << "Low", "Medium", "High", "Critical" >>

TierNames == {Tiers[i] : i \in 1..Len(Tiers)}

\* Subscribers of the matching runs: one at (0, 0) with the default radius of
\* 5 km, one a quarter of a degree north with a radius of 27.75 km, each with
\* any of the four tiers as min_severity.
MatchSubscriptions ==
    { [email |-> Str("ana@example.org"), phone |-> NoStr, latitude |-> p[1],
       longitude |-> 0, radius_km |-> p[2], min_severity |-> s] :
         p \in { <<0, 5000>>, <<250, 27750>> }, s \in TierNames }

\* Updates of the matching runs: switch the subscription off, or on.
MatchUpdates ==
    { [EmptyUpdate EXCEPT !.is_active = Given(b)] : b \in {"true", "false"} }

\* Event locations of the matching runs: (0, 0) is 27.75 km from the second
\* subscriber, (0.03, 0.04) is 5.55 km from the first, (0, 0.001) is just
\* beyond 27.75 km from the second.
MatchLocations ==
    { [latitude |-> 0, longitude |-> 0],
      [latitude |-> 30, longitude |-> 40],
      [latitude |-> 0, longitude |-> 1] }

NoApi ==
    [op |-> "none", status |-> 0, raised |-> FALSE, subscription_id |-> 0,
     flood_id |-> 0, latitude |-> 0, longitude |-> 0, radius_km |-> 0, severity |-> "",
     queried |-> FALSE, matched |-> << >>, calls |-> << >>, persisted |-> FALSE,
     confirmation |-> NoSmtp, results |-> NoResults]

-----------------------------------------------------------------------------
(* External calls and their timeouts *)

\* The timeout= argument of the httpx requests (flood_risk.py 56, 101, 143;
\* notification.py 53), in thousandths of a second.
HttpTimeout == 10000

\* The timeout of an external call: 10 s for the four httpx requests; the
\* SMTP session is opened as smtplib.SMTP(server, port), without one.
CallTimeout(name) ==
    IF name \in {"weather", "forecast", "elevation", "sms"}
    THEN Num(HttpTimeout)
    ELSE PyNone

NoCall == [name |-> "none", timeout |-> PyNone]

NoInvocation == [active |-> FALSE, plan |-> << >>, next |-> 1, in_flight |-> NoCall]

\* The provider contacted by an attempt of send_flood_alert.
ProviderOf(attempt) == IF attempt.channel = "sms" THEN "sms" ELSE "smtp"

\* The external calls of one pipeline run, in order: the requests of
\* calculate_flood_risk, then one per send that reaches its provider.
ExternalCalls(risk_calls, attempts) ==
    LET made == SelectSeq(attempts, LAMBDA a : a.requested)
    IN  risk_calls \o [i \in 1..Len(made) |-> ProviderOf(made[i])]

-----------------------------------------------------------------------------
(* State machine *)

\* Nothing has been called yet and both tables are empty.
\* No create_flood_event coroutine exists.
NoTasks == << >>

NoFrames == << >>

Fresh ==
    /\ strHash = << >>
    /\ pc = "idle"
    /\ request = NoRequest
    /\ calls = << >>
    /\ weather_response = NoWeather
    /\ forecast_response = NoForecast
    /\ elevation_response = NoElevation
    /\ rainfall = PyNone
    /\ elevation = PyNone
    /\ result = NoResult
    /\ scoreLast = NoScore
    /\ scoreKept = NoScore
    /\ last_subscription_id = 0
    /\ alert_subscriptions = << >>
    /\ reactivated = {}
    /\ flood_events = << >>
    /\ api = NoApi
    /\ alert = NoAlert
    /\ invocation = NoInvocation
    /\ mock_calls = {}
    /\ tasks = NoTasks
    /\ frames = NoFrames

\* The flood risk service with any elevation key; the notification service
\* with the settings' defaults (config.py: no Twilio or SMTP credentials).
Init ==
    /\ google_elevation_api_key \in ElevationKeys
    /\ notification_service = Unconfigured
    /\ Fresh

\* One calculate_flood_risk call, from its arguments to its return or raise.
\* A provider answers exactly the requests the call issues.
CalculateFloodRisk ==
    /\ pc = "idle"
    /\ \E loc \in Locations, rov \in RainfallOverrides, eov \in ElevationOverrides :
       \E wx \in (IF OverrideSupplied(rov) THEN {NoWeather} ELSE WeatherResponses) :
       \E fc \in (IF ~OverrideSupplied(rov) /\ ForecastQueried(wx)
                  THEN ForecastResponses ELSE {NoForecast}) :
       \E el \in (IF ~OverrideSupplied(eov) /\ ~KeyUnconfigured(google_elevation_api_key)
                  THEN ElevationResponses ELSE {NoElevation}) :
       \E h \in (IF calculate_flood_risk(loc.latitude, loc.longitude, rov, eov,
                                         google_elevation_api_key, wx, fc, el, 0).hashed
                 THEN HashChoices(loc) ELSE {0}) :
          LET out == calculate_flood_risk(loc.latitude, loc.longitude, rov, eov,
                                          google_elevation_api_key, wx, fc, el, h)
          IN  /\ request' = [latitude |-> loc.latitude, longitude |-> loc.longitude,
                             rainfall_override |-> rov, elevation_override |-> eov]
              /\ calls' = out.calls
              /\ weather_response' = wx
              /\ forecast_response' = fc
              /\ elevation_response' = el
              /\ rainfall' = out.rainfall
              /\ elevation' = out.elevation
              /\ result' = out.result
              /\ strHash' = IF out.hashed THEN (loc :> h) @@ strHash ELSE strHash
    /\ pc' = "returned"
    /\ UNCHANGED << google_elevation_api_key, scoreLast, scoreKept >>
    /\ UNCHANGED alertingVars

\* The caller has consumed the outcome; the service is ready for the next call.
Respond ==
    /\ pc = "returned"
    /\ pc' = "idle"
    /\ request' = NoRequest
    /\ calls' = << >>
    /\ weather_response' = NoWeather
    /\ forecast_response' = NoForecast
    /\ elevation_response' = NoElevation
    /\ rainfall' = PyNone
    /\ elevation' = PyNone
    /\ result' = NoResult
    /\ UNCHANGED << google_elevation_api_key, strHash, scoreLast, scoreKept >>
    /\ UNCHANGED alertingVars

\* A direct calculate_risk_score(rainfall_mm, elevation_m) call.  The record of
\* the call it replaces may be kept as scoreKept; `between` says that other calls
\* were made after the kept one and before the latest one.
CallRiskScore ==
    /\ \E r \in ScoreRainfalls, e \in ScoreElevations, keep \in BOOLEAN :
          LET scored == calculate_risk_score(Num(r), Num(e))
          IN  /\ scoreLast' = [called |-> TRUE, rainfall_mm |-> r, elevation_m |-> e,
                               risk_score |-> scored.risk_score,
                               severity |-> scored.severity, between |-> FALSE]
              /\ scoreKept' = IF keep THEN scoreLast
                              ELSE [scoreKept EXCEPT !.between = scoreKept.called]
    /\ UNCHANGED << google_elevation_api_key, strHash >>
    /\ UNCHANGED pipelineVars
    /\ UNCHANGED alertingVars

Next == CalculateFloodRisk \/ Respond

Spec == Init /\ [][Next]_vars

NextScore == CallRiskScore

\* The service constructed from the default settings (config.py 18: no elevation key).
InitScore == Init /\ google_elevation_api_key = [none |-> TRUE, s |-> ""]

SpecScore == InitScore /\ [][NextScore]_vars

-----------------------------------------------------------------------------
(* Subscription endpoints (app/routers/notifications.py) and the matcher *)

\* What the handlers below leave alone.
serviceVars == << google_elevation_api_key, strHash, notification_service, invocation >>

\* POST /notifications/subscribe (subscribe_to_alerts, lines 19-72): the body
\* is validated against AlertSubscriptionCreate (422), a body without contact
\* is refused (400), otherwise the row is stored and, when an email is given,
\* a confirmation email is attempted; its outcome does not change the answer.
SubscribeToAlerts(subscription) ==
    /\ last_subscription_id < MaxSubscriptions
    /\ alert' = NoAlert
    /\ UNCHANGED << serviceVars, flood_events, reactivated >>
    /\ UNCHANGED << pipelineVars, scoreVars, historyVars >>
    /\ IF ~(/\ ValidLatitude(subscription.latitude)
            /\ ValidLongitude(subscription.longitude)
            /\ ValidRadius(subscription.radius_km))
       THEN /\ api' = [NoApi EXCEPT !.op = "subscribe", !.status = 422]
            /\ UNCHANGED << last_subscription_id, alert_subscriptions >>
       ELSE IF ~Truthy(subscription.email) /\ ~Truthy(subscription.phone)
       THEN /\ api' = [NoApi EXCEPT !.op = "subscribe", !.status = 400]
            /\ UNCHANGED << last_subscription_id, alert_subscriptions >>
       ELSE \E outcome \in (IF Truthy(subscription.email)
                               /\ SmtpRequested(notification_service)
                            THEN SmtpOutcomes ELSE {NoSmtp}) :
               /\ last_subscription_id' = last_subscription_id + 1
               /\ alert_subscriptions' =
                     (last_subscription_id' :> create_subscription(subscription))
                        @@ alert_subscriptions
               /\ api' = [NoApi EXCEPT !.op = "subscribe", !.status = 201,
                                       !.subscription_id = last_subscription_id',
                                       !.confirmation = outcome]

\* PUT /notifications/subscriptions/{id} (update_subscription, lines 106-128).
UpdateSubscription(subscription_id, subscription_update) ==
    /\ alert' = NoAlert
    /\ UNCHANGED << serviceVars, flood_events, last_subscription_id >>
    /\ UNCHANGED << pipelineVars, scoreVars, historyVars >>
    /\ IF subscription_id \notin DOMAIN alert_subscriptions
       THEN /\ api' = [NoApi EXCEPT !.op = "update", !.status = 404,
                                    !.subscription_id = subscription_id]
            /\ UNCHANGED << alert_subscriptions, reactivated >>
       ELSE LET old == alert_subscriptions[subscription_id]
                new == update_subscription(old, subscription_update)
            IN  /\ alert_subscriptions' =
                      [alert_subscriptions EXCEPT ![subscription_id] = new]
                /\ reactivated' =
                      IF ~ActiveRow(new) THEN reactivated \ {subscription_id}
                      ELSE IF ~ActiveRow(old) THEN reactivated \cup {subscription_id}
                      ELSE reactivated
                /\ api' = [NoApi EXCEPT !.op = "update", !.status = 200,
                                        !.subscription_id = subscription_id]

\* DELETE /notifications/subscriptions/{id} (delete_subscription, lines 131-144).
DeleteSubscription(subscription_id) ==
    /\ alert' = NoAlert
    /\ UNCHANGED << serviceVars, flood_events, last_subscription_id >>
    /\ UNCHANGED << pipelineVars, scoreVars, historyVars >>
    /\ IF subscription_id \notin DOMAIN alert_subscriptions
       THEN /\ api' = [NoApi EXCEPT !.op = "delete", !.status = 404,
                                    !.subscription_id = subscription_id]
            /\ UNCHANGED << alert_subscriptions, reactivated >>
       ELSE /\ alert_subscriptions' = Without(alert_subscriptions, subscription_id)
            /\ reactivated' = reactivated \ {subscription_id}
            /\ api' = [NoApi EXCEPT !.op = "delete", !.status = 200,
                                    !.subscription_id = subscription_id]

\* A direct crud.get_subscriptions_near_location(db, latitude, longitude,
\* min_severity) call on the stored rows.
GetSubscriptionsNearLocation(latitude, longitude, min_severity) ==
    /\ alert' = NoAlert
    /\ UNCHANGED << serviceVars, storeVars >>
    /\ UNCHANGED << pipelineVars, scoreVars, historyVars >>
    /\ LET found == get_subscriptions_near_location(alert_subscriptions, latitude,
                                                    longitude, min_severity)
       IN  api' = [NoApi EXCEPT !.op = "get_subscriptions_near_location",
                                !.raised = found.raised,
                                !.latitude = latitude, !.longitude = longitude,
                                !.severity = min_severity, !.queried = TRUE,
                                !.matched = found.ids]

\* The caller has consumed the outcome of the latest call.
Acknowledge ==
    /\ api.op # "none"
    /\ api' = NoApi
    /\ alert' = NoAlert
    /\ UNCHANGED << serviceVars, storeVars >>
    /\ UNCHANGED << pipelineVars, scoreVars, historyVars >>

NextMatch ==
    \/ /\ api.op = "none"
       /\ \/ \E subscription \in MatchSubscriptions : SubscribeToAlerts(subscription)
          \/ \E id \in 1..MaxSubscriptions, u \in MatchUpdates : UpdateSubscription(id, u)
          \/ \E id \in 1..MaxSubscriptions : DeleteSubscription(id)
          \/ \E loc \in MatchLocations, s \in TierNames :
                GetSubscriptionsNearLocation(loc.latitude, loc.longitude, s)
    \/ Acknowledge

SpecMatch == InitScore /\ [][NextMatch]_vars

-----------------------------------------------------------------------------
(* Direct send_flood_alert calls *)

\* Most recipients listed per channel in a direct send_flood_alert call.
MaxRecipients == 2

Phones == {"+15550001", "+15550002"}

Emails == {"ana@example.org", "raj@example.org"}

\* The phone_numbers / emails arguments: None, or a list (empty, or with
\* repeated entries, included).
PhoneLists == {NoList} \cup {ListOf(l) : l \in SeqsUpTo(Phones, MaxRecipients)}

EmailLists == {NoList} \cup {ListOf(l) : l \in SeqsUpTo(Emails, MaxRecipients)}

\* One send_flood_alert(..., phone_numbers, emails) call; each provider
\* answers the requests the call issues.
SendFloodAlert(phone_numbers, emails) ==
    /\ api.op = "none"
    /\ \E sms \in SmsResponsesFor(notification_service, phone_numbers) :
       \E smtp \in SmtpOutcomesFor(notification_service, emails) :
          LET out == send_flood_alert(notification_service, phone_numbers, emails,
                                      sms, smtp)
          IN  /\ alert' = [called |-> TRUE, phone_numbers |-> phone_numbers,
                           emails |-> emails, attempts |-> out.attempts,
                           raised |-> out.raised, results |-> out.results]
              /\ api' = [NoApi EXCEPT !.op = "send_flood_alert",
                                      !.raised = out.raised,
                                      !.results = out.results]
    /\ UNCHANGED << serviceVars, storeVars >>
    /\ UNCHANGED << pipelineVars, scoreVars, historyVars >>

NextDispatch ==
    \/ \E phone_numbers \in PhoneLists, emails \in EmailLists :
          SendFloodAlert(phone_numbers, emails)
    \/ Acknowledge

\* Any of the credential settings of the notification service.
InitDispatch ==
    /\ google_elevation_api_key = [none |-> TRUE, s |-> ""]
    /\ notification_service \in NotificationServices
    /\ Fresh

SpecDispatch == InitDispatch /\ [][NextDispatch]_vars

-----------------------------------------------------------------------------
(* Flood endpoints (app/routers/floods.py) and POST /notifications/send-alert *)

\* Most flood events ever stored.
MaxFloodEvents == 1

\* FloodEventCreate (schemas.py 22-37): latitude and longitude in range,
\* rainfall_mm None or >= 0, elevation_m None or any float.
ValidFloodEvent(flood_event) ==
    /\ ValidLatitude(flood_event.latitude)
    /\ ValidLongitude(flood_event.longitude)
    /\ flood_event.rainfall_mm.none \/ flood_event.rainfall_mm.v >= 0

\* RiskCalculationRequest (schemas.py 64-68): latitude and longitude in range.
ValidRiskRequest(request_body) ==
    /\ ValidLatitude(request_body.latitude)
    /\ ValidLongitude(request_body.longitude)

\* get_flood_events_by_location (crud.py 98-125): the ids of the events in the
\* bounding box, latest first; the division by 111.0 * abs(latitude) raises
\* ZeroDivisionError at latitude 0.  Degrees and kilometres are in thousandths;
\* the deltas are rounded down, no modelled event lies on an edge of the box.
get_flood_events_by_location(rows, latitude, longitude, radius_km) ==
    IF 111 * Abs(latitude) = 0
    THEN [raised |-> TRUE, ids |-> << >>]
    ELSE LET lat_delta == radius_km \div 111
             lon_delta == (radius_km * 1000) \div (111 * Abs(latitude))
             inside == { id \in 1..Len(rows) :
                           /\ rows[id].latitude >= latitude - lat_delta
                           /\ rows[id].latitude <= latitude + lat_delta
                           /\ rows[id].longitude >= longitude - lon_delta
                           /\ rows[id].longitude <= longitude + lon_delta }
             ascending == SortedIds(inside)
         IN  [raised |-> FALSE,
              ids |-> [i \in 1..Len(ascending) |-> ascending[Len(ascending) + 1 - i]]]

\* crud.create_flood_event (crud.py 37-47): the row it inserts.
crud_create_flood_event(flood_event, risk_data) ==
    [latitude |-> flood_event.latitude,
     longitude |-> flood_event.longitude,
     severity |-> risk_data.severity,
     risk_score |-> risk_data.risk_score,
     rainfall_mm |-> risk_data.rainfall_mm,
     elevation_m |-> risk_data.elevation_m]

\* The auto-send test that lets every severity through.
AutoSendSeverity_any(severity) == TRUE

\* floods.py 148: if risk_data["severity"] in ["High", "Critical"].
AutoSendSeverity(severity) == severity \in {"High", "Critical"}

\* [sub.email for sub in subscriptions if sub.email], and
\* `emails if emails else None` (floods.py 157, 168; notifications.py 213, 224).
EmailsOf(rows, ids) ==
    LET keep == SelectSeq(ids, LAMBDA id : Truthy(rows[id].email))
    IN  IF keep = << >> THEN NoList
        ELSE ListOf([i \in 1..Len(keep) |-> rows[keep[i]].email.s])

\* [sub.phone for sub in subscriptions if sub.phone], and
\* `phones if phones else None` (floods.py 158, 167; notifications.py 214, 223).
PhonesOf(rows, ids) ==
    LET keep == SelectSeq(ids, LAMBDA id : Truthy(rows[id].phone))
    IN  IF keep = << >> THEN NoList
        ELSE ListOf([i \in 1..Len(keep) |-> rows[keep[i]].phone.s])

\* Whether the database answers the subscription query of a handler.
StoreOutcomes == {"up", "down"}

\* `if subscriptions:` (floods.py 156) / `if not subscriptions:` (notifications.py 207).
NotifyMatched(ids) == ids # << >>

\* The part of a handler from the subscription query to the end of
\* send_flood_alert (floods.py 149-169, notifications.py 200-225), for an
\* event at (latitude, longitude) of the given severity: the values of `alert`
\* and of the fields raised, queried, matched and results of `api`.
MatchAndDispatch(latitude, longitude, severity) ==
    UNION {
          IF store = "down"
          THEN { [api |-> [NoApi EXCEPT !.raised = TRUE, !.queried = TRUE],
                  alert |-> NoAlert] }
          ELSE LET found == get_subscriptions_near_location(alert_subscriptions,
                                latitude, longitude, severity)
                   phones == PhonesOf(alert_subscriptions, found.ids)
                   emails == EmailsOf(alert_subscriptions, found.ids)
               IN  IF found.raised \/ ~NotifyMatched(found.ids)
                   THEN { [api |-> [NoApi EXCEPT !.raised = found.raised,
                                                 !.queried = TRUE,
                                                 !.matched = found.ids],
                           alert |-> NoAlert] }
                   ELSE { [api |-> [NoApi EXCEPT !.raised = out.raised,
                                                 !.queried = TRUE,
                                                 !.matched = found.ids,
                                                 !.results = out.results],
                           alert |-> [called |-> TRUE, phone_numbers |-> phones,
                                      emails |-> emails, attempts |-> out.attempts,
                                      raised |-> out.raised, results |-> out.results]] :
                          out \in { send_flood_alert(notification_service, phones,
                                                     emails, sms, smtp) :
                                      sms \in SmsResponsesFor(notification_service, phones),
                                      smtp \in SmtpOutcomesFor(notification_service, emails) } }
          : store \in StoreOutcomes }

\* Provider answers of the endpoint runs: /weather times out, reports
\* 35.2 mm or holds a null value; the elevation provider answers 15.5 m.
ApiWeatherResponses ==
    { w \in WeatherResponses :
        \/ w.kind = "timeout"
        \/ w.kind = "ok" /\ w.has1h /\ w.v \in {PyNone, Num(35200)} }

ApiElevationResponses ==
    { e \in ElevationResponses :
        e.kind = "ok" /\ e.status = "OK"
        /\ e.results = << [haselev |-> TRUE, v |-> Num(15500)] >> }

\* The provider answers to the requests of one calculate_flood_risk call made
\* by a handler, and what the call then does.
RiskRuns(latitude, longitude, rov, eov) ==
    { [out |-> calculate_flood_risk(latitude, longitude, rov, eov,
                                    google_elevation_api_key, r.wx, r.fc, r.el, r.h),
       h |-> r.h] :
        r \in UNION UNION UNION {{{{
                 [wx |-> wx, fc |-> fc, el |-> el, h |-> h] :
                 h \in (IF calculate_flood_risk(latitude, longitude, rov, eov,
                               google_elevation_api_key, wx, fc, el, 0).hashed
                        THEN HashChoices([latitude |-> latitude, longitude |-> longitude])
                        ELSE {0}) } :
                 el \in (IF ~OverrideSupplied(eov)
                            /\ ~KeyUnconfigured(google_elevation_api_key)
                         THEN ApiElevationResponses ELSE {NoElevation}) } :
                 fc \in (IF ~OverrideSupplied(rov) /\ ForecastQueried(wx)
                         THEN ForecastResponses ELSE {NoForecast}) } :
                 wx \in (IF OverrideSupplied(rov) THEN {NoWeather}
                         ELSE ApiWeatherResponses) } }

\* POST /floods/ (create_flood_event, floods.py 83-171): validation of the
\* body (422), calculate_flood_risk with the body's overrides, the insert of
\* the event and, for a High or Critical severity, the subscription query and
\* send_flood_alert.  An exception of any step leaves the handler (500).
CreateFloodEvent(flood_event) ==
    /\ Len(flood_events) < MaxFloodEvents
    /\ UNCHANGED << google_elevation_api_key, notification_service, invocation,
                    last_subscription_id, alert_subscriptions, reactivated >>
    /\ UNCHANGED << pipelineVars, scoreVars, historyVars >>
    /\ LET base == [NoApi EXCEPT !.op = "create_flood_event",
                                 !.latitude = flood_event.latitude,
                                 !.longitude = flood_event.longitude]
       IN  IF ~ValidFloodEvent(flood_event)
           THEN /\ api' = [base EXCEPT !.status = 422]
                /\ alert' = NoAlert
                /\ UNCHANGED << strHash, flood_events >>
           ELSE \E run \in RiskRuns(flood_event.latitude, flood_event.longitude,
                                    flood_event.rainfall_mm, flood_event.elevation_m) :
                   LET risk_data == run.out.result
                       loc == [latitude |-> flood_event.latitude,
                               longitude |-> flood_event.longitude]
                       scored == [base EXCEPT !.calls = run.out.calls]
                   IN  /\ strHash' = IF run.out.hashed
                                      THEN (loc :> run.h) @@ strHash ELSE strHash
                       /\ IF risk_data.raised
                          THEN /\ api' = [scored EXCEPT !.status = 500, !.raised = TRUE]
                               /\ alert' = NoAlert
                               /\ UNCHANGED flood_events
                          ELSE /\ flood_events' =
                                     Append(flood_events,
                                            crud_create_flood_event(flood_event, risk_data))
                               /\ LET stored == [scored EXCEPT
                                                    !.persisted = TRUE,
                                                    !.flood_id = Len(flood_events) + 1,
                                                    !.severity = risk_data.severity]
                                  IN  IF ~AutoSendSeverity(risk_data.severity)
                                      THEN /\ api' = [stored EXCEPT !.status = 201]
                                           /\ alert' = NoAlert
                                      ELSE \E md \in MatchAndDispatch(flood_event.latitude,
                                                        flood_event.longitude,
                                                        risk_data.severity) :
                                              /\ alert' = md.alert
                                              /\ api' = [stored EXCEPT
                                                    !.status = IF md.api.raised
                                                               THEN 500 ELSE 201,
                                                    !.raised = md.api.raised,
                                                    !.queried = md.api.queried,
                                                    !.matched = md.api.matched]

\* POST /notifications/send-alert (send_alert_notifications, lines 180-233).
SendAlertNotifications(flood_id) ==
    /\ UNCHANGED << serviceVars, storeVars >>
    /\ UNCHANGED << pipelineVars, scoreVars, historyVars >>
    /\ IF flood_id \notin 1..Len(flood_events)
       THEN /\ api' = [NoApi EXCEPT !.op = "send_alert", !.status = 404,
                                    !.flood_id = flood_id]
            /\ alert' = NoAlert
       ELSE LET flood_event == flood_events[flood_id]
            IN  \E md \in MatchAndDispatch(flood_event.latitude, flood_event.longitude,
                                           flood_event.severity) :
                   /\ alert' = md.alert
                   /\ api' = [md.api EXCEPT
                                 !.op = "send_alert",
                                 !.status = IF md.api.raised THEN 500 ELSE 200,
                                 !.flood_id = flood_id,
                                 !.latitude = flood_event.latitude,
                                 !.longitude = flood_event.longitude,
                                 !.severity = flood_event.severity]

\* GET /floods/nearby/ (get_nearby_flood_events, floods.py 174-201): validation
\* of the query parameters (422), then crud.get_flood_events_by_location; an
\* exception of the query leaves the handler (500).
GetNearbyFloodEvents(latitude, longitude, radius_km) ==
    /\ UNCHANGED << serviceVars, storeVars >>
    /\ UNCHANGED << pipelineVars, scoreVars, historyVars >>
    /\ alert' = NoAlert
    /\ LET base == [NoApi EXCEPT !.op = "get_nearby_flood_events",
                                 !.latitude = latitude,
                                 !.longitude = longitude,
                                 !.radius_km = radius_km]
           found == get_flood_events_by_location(flood_events, latitude, longitude,
                                                 radius_km)
       IN  IF ~(ValidLatitude(latitude) /\ ValidLongitude(longitude)
                /\ ValidRadius(radius_km))
           THEN api' = [base EXCEPT !.status = 422]
           ELSE api' = [base EXCEPT !.raised = found.raised,
                                    !.status = IF found.raised THEN 500 ELSE 200,
                                    !.matched = found.ids]

\* The endpoint, had it stored the assessment as create_flood_event does.
CalculateRisk_saving(request_body) ==
    /\ UNCHANGED << google_elevation_api_key, notification_service, invocation,
                    last_subscription_id, alert_subscriptions, reactivated >>
    /\ UNCHANGED << pipelineVars, scoreVars, historyVars >>
    /\ alert' = NoAlert
    /\ LET base == [NoApi EXCEPT !.op = "calculate_risk",
                                 !.latitude = request_body.latitude,
                                 !.longitude = request_body.longitude]
       IN  IF ~ValidRiskRequest(request_body)
           THEN /\ api' = [base EXCEPT !.status = 422]
                /\ UNCHANGED << strHash, flood_events >>
           ELSE \E run \in RiskRuns(request_body.latitude, request_body.longitude,
                                    PyNone, PyNone) :
                   /\ strHash' = IF run.out.hashed
                                  THEN ([latitude |-> request_body.latitude,
                                         longitude |-> request_body.longitude]
                                           :> run.h) @@ strHash
                                  ELSE strHash
                   /\ flood_events' = Append(flood_events,
                          crud_create_flood_event(request_body, run.out.result))
                   /\ api' = [base EXCEPT
                                 !.calls = run.out.calls,
                                 !.raised = run.out.result.raised,
                                 !.status = IF run.out.result.raised THEN 500 ELSE 200,
                                 !.severity = run.out.result.severity]

\* POST /floods/calculate-risk (calculate_flood_risk, floods.py 204-256):
\* validation of the body (422), then calculate_flood_risk without overrides.
CalculateRisk(request_body) ==
    /\ UNCHANGED << google_elevation_api_key, notification_service, invocation,
                    storeVars >>
    /\ UNCHANGED << pipelineVars, scoreVars, historyVars >>
    /\ alert' = NoAlert
    /\ LET base == [NoApi EXCEPT !.op = "calculate_risk",
                                 !.latitude = request_body.latitude,
                                 !.longitude = request_body.longitude]
       IN  IF ~ValidRiskRequest(request_body)
           THEN /\ api' = [base EXCEPT !.status = 422]
                /\ UNCHANGED strHash
           ELSE \E run \in RiskRuns(request_body.latitude, request_body.longitude,
                                    PyNone, PyNone) :
                   /\ strHash' = IF run.out.hashed
                                  THEN ([latitude |-> request_body.latitude,
                                         longitude |-> request_body.longitude]
                                           :> run.h) @@ strHash
                                  ELSE strHash
                   /\ api' = [base EXCEPT
                                 !.calls = run.out.calls,
                                 !.raised = run.out.result.raised,
                                 !.status = IF run.out.result.raised THEN 500 ELSE 200,
                                 !.severity = run.out.result.severity]

\* Bodies of POST /floods/: at (0, 0) with and without overrides, and with a
\* latitude or longitude out of range.
ApiFloodEvents ==
    { [latitude |-> 0, longitude |-> 0, rainfall_mm |-> r, elevation_m |-> e] :
        r \in {PyNone, Num(35200)}, e \in {PyNone, Num(250000)} }
    \cup
    { [latitude |-> p[1], longitude |-> p[2], rainfall_mm |-> Num(35200),
       elevation_m |-> PyNone] :
        p \in { <<200000, 0>>, <<-90001, 0>>, <<0, 180001>>, <<0, -181000>> } }

\* Bodies of POST /floods/calculate-risk: in range (the corners included) and
\* out of range.
ApiRiskRequests ==
    { [latitude |-> p[1], longitude |-> p[2]] :
        p \in { <<0, 0>>, <<90000, -180000>>, <<-90000, 180000>>,
                <<200000, 0>>, <<90001, 0>>, <<0, -180001>> } }

\* Bodies of POST /notifications/subscribe: a subscriber at (0, 0) with both
\* contacts and min_severity Low or High, one without contact, one with a
\* radius below 0.1 km.
ApiSubscriptions ==
    { [email |-> Str("ana@example.org"), phone |-> Str("+15550001"), latitude |-> 0,
       longitude |-> 0, radius_km |-> 5000, min_severity |-> s] : s \in {"Low", "High"} }
    \cup
    { [email |-> NoStr, phone |-> NoStr, latitude |-> 0, longitude |-> 0,
       radius_km |-> 5000, min_severity |-> "Low"],
      [email |-> Str("ana@example.org"), phone |-> NoStr, latitude |-> 0,
       longitude |-> 0, radius_km |-> 0, min_severity |-> "Low"] }

\* Query parameters of GET /floods/nearby/: on the equator, next to the stored
\* events, a degree away from them, and with a radius or a latitude out of range.
ApiNearbyQueries ==
    { [latitude |-> 0, longitude |-> 0, radius_km |-> 5000],
      [latitude |-> 20, longitude |-> 20, radius_km |-> 5000],
      [latitude |-> 1000, longitude |-> 0, radius_km |-> 5000],
      [latitude |-> 20, longitude |-> 20, radius_km |-> 50],
      [latitude |-> 90001, longitude |-> 0, radius_km |-> 5000] }

\* Bodies of PUT /notifications/subscriptions/{id}: both contacts set to null.
ApiUpdates ==
    { [EmptyUpdate EXCEPT !.email = Given(NoStr), !.phone = Given(NoStr)] }

\* Arguments of the direct send_flood_alert calls of the endpoint runs: None,
\* an empty list or one recipient.
ApiPhoneLists == {NoList, ListOf(<< >>), ListOf(<< "+15550002" >>)}

ApiEmailLists == {NoList, ListOf(<< >>), ListOf(<< "raj@example.org" >>)}

NextApi ==
    \/ /\ api.op = "none"
       /\ \/ \E flood_event \in ApiFloodEvents : CreateFloodEvent(flood_event)
          \/ \E flood_id \in 1..(MaxFloodEvents + 1) : SendAlertNotifications(flood_id)
          \/ \E request_body \in ApiRiskRequests : CalculateRisk(request_body)
          \/ \E q \in ApiNearbyQueries :
                GetNearbyFloodEvents(q.latitude, q.longitude, q.radius_km)
          \/ \E subscription \in ApiSubscriptions : SubscribeToAlerts(subscription)
          \/ \E id \in 1..MaxSubscriptions, u \in ApiUpdates : UpdateSubscription(id, u)
          \/ \E phone_numbers \in ApiPhoneLists, emails \in ApiEmailLists :
                SendFloodAlert(phone_numbers, emails)
    \/ Acknowledge

\* A live elevation key; the notification service with all credentials or none.
InitApi ==
    /\ google_elevation_api_key = [none |-> FALSE, s |-> "AIza-live-key"]
    /\ notification_service \in
          {svc \in NotificationServices : SmsRequested(svc) = SmtpRequested(svc)}
    /\ Fresh

SpecApi == InitApi /\ [][NextApi]_vars

-----------------------------------------------------------------------------
(* A pipeline run, one external call at a time *)

\* A pipeline run starts: calculate_flood_risk for the location, then
\* send_flood_alert for the recipients.  Which requests it issues depends on
\* the overrides, the key, the credentials and the /weather answer; the
\* forecast and elevation answers change no later request, so a failure
\* stands for any of them.
BeginInvocation ==
    /\ ~invocation.active
    /\ \E loc \in Locations, rov \in RainfallOverrides, eov \in ElevationOverrides :
       \E wx \in (IF OverrideSupplied(rov) THEN {NoWeather} ELSE WeatherResponses) :
       \E fc \in (IF ~OverrideSupplied(rov) /\ ForecastQueried(wx)
                  THEN ForecastFailures ELSE {NoForecast}) :
       \E el \in (IF ~OverrideSupplied(eov) /\ ~KeyUnconfigured(google_elevation_api_key)
                  THEN ElevationFailures ELSE {NoElevation}) :
       \E phone_numbers \in ApiPhoneLists, emails \in ApiEmailLists :
       \E sms \in SmsResponsesFor(notification_service, phone_numbers) :
       \E smtp \in SmtpOutcomesFor(notification_service, emails) :
          LET risk == calculate_flood_risk(loc.latitude, loc.longitude, rov, eov,
                                           google_elevation_api_key, wx, fc, el, 0)
              sent == send_flood_alert(notification_service, phone_numbers, emails,
                                       sms, smtp)
          IN  invocation' = [active |-> TRUE,
                             plan |-> ExternalCalls(risk.calls, sent.attempts),
                             next |-> 1, in_flight |-> NoCall]
    /\ UNCHANGED << google_elevation_api_key, strHash, notification_service,
                    storeVars, api, alert >>
    /\ UNCHANGED << pipelineVars, scoreVars, historyVars >>

\* The run issues its next external call and waits for it.
IssueCall ==
    /\ invocation.active
    /\ invocation.in_flight = NoCall
    /\ invocation.next <= Len(invocation.plan)
    /\ invocation' =
          [invocation EXCEPT
              !.in_flight = [name |-> invocation.plan[invocation.next],
                             timeout |-> CallTimeout(invocation.plan[invocation.next])]]
    /\ UNCHANGED << google_elevation_api_key, strHash, notification_service,
                    storeVars, api, alert >>
    /\ UNCHANGED << pipelineVars, scoreVars, historyVars >>

\* The provider answers, or the connection fails: the call returns or raises.
ProviderAnswers ==
    /\ invocation.in_flight # NoCall
    /\ invocation' = [invocation EXCEPT !.in_flight = NoCall,
                                        !.next = invocation.next + 1]
    /\ UNCHANGED << google_elevation_api_key, strHash, notification_service,
                    storeVars, api, alert >>
    /\ UNCHANGED << pipelineVars, scoreVars, historyVars >>

\* The timeout of the call in flight expires: the call raises.
TimeoutExpires ==
    /\ invocation.in_flight # NoCall
    /\ ~invocation.in_flight.timeout.none
    /\ invocation' = [invocation EXCEPT !.in_flight = NoCall,
                                        !.next = invocation.next + 1]
    /\ UNCHANGED << google_elevation_api_key, strHash, notification_service,
                    storeVars, api, alert >>
    /\ UNCHANGED << pipelineVars, scoreVars, historyVars >>

\* All calls are done: the run returns.
ReturnInvocation ==
    /\ invocation.active
    /\ invocation.in_flight = NoCall
    /\ invocation.next > Len(invocation.plan)
    /\ invocation' = NoInvocation
    /\ UNCHANGED << google_elevation_api_key, strHash, notification_service,
                    storeVars, api, alert >>
    /\ UNCHANGED << pipelineVars, scoreVars, historyVars >>

NextCalls ==
    BeginInvocation \/ IssueCall \/ ProviderAnswers \/ TimeoutExpires \/ ReturnInvocation

\* Any elevation key and any credential setting.
InitCalls ==
    /\ google_elevation_api_key \in ElevationKeys
    /\ notification_service \in NotificationServices
    /\ Fresh

\* The event loop runs a coroutine that can run, and an expired timeout
\* fires; a provider is not obliged to answer.
SpecCalls ==
    /\ InitCalls
    /\ [][NextCalls]_vars
    /\ WF_vars(IssueCall)
    /\ WF_vars(TimeoutExpires)
    /\ WF_vars(ReturnInvocation)

-----------------------------------------------------------------------------
(* The mock elevation over several runs of the service *)

\* One _mock_elevation(latitude, longitude) call in the running process.  The
\* hash of the coordinate string is fixed the first time the process computes
\* it and is the same for the rest of that process.
MockElevation(latitude, longitude) ==
    /\ \E h \in HashChoices([latitude |-> latitude, longitude |-> longitude]) :
          /\ strHash' = ([latitude |-> latitude, longitude |-> longitude] :> h) @@ strHash
          /\ mock_calls' = mock_calls \cup
                 { [latitude |-> latitude, longitude |-> longitude,
                    elevation |-> _mock_elevation(latitude, longitude, h)] }
    /\ UNCHANGED << google_elevation_api_key, pipelineVars, scoreVars, tasks, frames >>
    /\ UNCHANGED << notification_service, storeVars, api, alert, invocation >>

\* The server process ends and a new one is started from the same settings:
\* flood_risk_service is constructed again (flood_risk.py 288) and the new
\* interpreter salts str hashes afresh.  The tables are kept by the database.
Restart ==
    /\ strHash # << >>
    /\ strHash' = << >>
    /\ UNCHANGED << google_elevation_api_key, pipelineVars, scoreVars, historyVars >>
    /\ UNCHANGED << notification_service, storeVars, api, alert, invocation >>

NextMock ==
    \/ \E loc \in Locations : MockElevation(loc.latitude, loc.longitude)
    \/ Restart

SpecMock == Init /\ [][NextMock]_vars

-----------------------------------------------------------------------------
(* Subscriptions written by subscribe and update *)

\* Bodies of POST /notifications/subscribe: a subscriber at (0, 0) with an
\* email address only and min_severity "Critical" or the free string
\* "critical", and one without any contact.
SubsSubscriptions ==
    { [email |-> Str("ana@example.org"), phone |-> NoStr, latitude |-> 0,
       longitude |-> 0, radius_km |-> 5000, min_severity |-> s] :
        s \in {"Critical", "critical"} }
    \cup
    { [email |-> NoStr, phone |-> NoStr, latitude |-> 0, longitude |-> 0,
       radius_km |-> 5000, min_severity |-> "Critical"] }

\* Bodies of PUT /notifications/subscriptions/{id}: a radius of 0 or -5 km, the
\* email set to null, min_severity set to the free string "Severe".
SubsUpdates ==
    { [EmptyUpdate EXCEPT !.radius_km = Given(Num(0))],
      [EmptyUpdate EXCEPT !.radius_km = Given(Num(-5000))],
      [EmptyUpdate EXCEPT !.email = Given(NoStr)],
      [EmptyUpdate EXCEPT !.min_severity = Given("Severe")] }

NextSubs ==
    \/ /\ api.op = "none"
       /\ \/ \E subscription \in SubsSubscriptions : SubscribeToAlerts(subscription)
          \/ \E id \in 1..MaxSubscriptions, u \in SubsUpdates : UpdateSubscription(id, u)
          \/ \E s \in {"Low", "High"} : GetSubscriptionsNearLocation(0, 0, s)
    \/ Acknowledge

SpecSubs == InitScore /\ [][NextSubs]_vars

-----------------------------------------------------------------------------
(* Concurrent create_flood_event requests.  The handler is a coroutine: it  *)
(* runs until an await that has to wait (the httpx requests of the         *)
(* resolver and of send_sms) and the event loop may run another request    *)
(* meanwhile.  The database calls and send_email are synchronous.  A task  *)
(* is one request; its frame holds the local variables of the handler and  *)
(* of the service methods it is in.                                        *)

MaxTasks == 2   \* requests in flight together

\* One frame for all tasks, as if the locals were attributes of the shared
\* service instances.
FrameOf_shared(p) == 1

\* The frame of a task: every coroutine call has its own.
FrameOf(p) == p

NoFloodEvent ==
    [latitude |-> 0, longitude |-> 0, rainfall_mm |-> PyNone, elevation_m |-> PyNone]

\* Locals: flood_event (floods.py 84), the /weather document kept while the
\* forecast is awaited, rainfall and elevation (flood_risk.py 266-267),
\* risk_data and db_flood_event.id (floods.py 130, 138), phones and emails
\* (floods.py 157-158) and the sends made so far by send_flood_alert.
NoFrame ==
    [flood_event |-> NoFloodEvent, wx |-> NoWeather, rainfall |-> PyNone,
     elevation |-> PyNone, risk_data |-> NoResult, flood_id |-> 0, called |-> FALSE,
     phone_numbers |-> NoList, emails |-> NoList, attempts |-> << >>]

\* What the handler gave back to its client.
NoReturn ==
    [status |-> 0, flood_id |-> 0, risk_data |-> NoResult, called |-> FALSE,
     attempts |-> << >>]

\* A task: where it waits (pc), the body it was started with, the answer each
\* of its requests got, and what it returned.
NoTask ==
    [pc |-> "idle", flood_event |-> NoFloodEvent, wx |-> NoWeather, fc |-> NoForecast,
     el |-> NoElevation, sms |-> << >>, smtp |-> << >>, returned |-> NoReturn]

\* flood_risk.py 270-284: the score of the resolved readings and the
\* assessment returned; the scorer raises on a None reading.
Assess(rainfall_mm, elevation_m) ==
    LET scored == calculate_risk_score(rainfall_mm, elevation_m)
    IN  IF scored.exc
        THEN [NoResult EXCEPT !.raised = TRUE]
        ELSE [raised |-> FALSE,
              rainfall_mm |-> rainfall_mm,
              elevation_m |-> elevation_m,
              risk_score |-> scored.risk_score,
              severity |-> scored.severity,
              rainfall_contribution |-> rainfall_contribution(rainfall_mm.v),
              elevation_contribution |-> elevation_contribution(elevation_m.v)]

\* flood_risk.py 267: the elevation override, or the await of the elevation
\* request (the key of these runs is configured).
EnterElevation(f) ==
    IF OverrideSupplied(f.flood_event.elevation_m)
    THEN [pc |-> "resolved", frame |-> [f EXCEPT !.elevation = f.flood_event.elevation_m]]
    ELSE [pc |-> "elevation", frame |-> f]

\* flood_risk.py 266: the rainfall override, or the await of the /weather request.
EnterRainfall(f) ==
    IF OverrideSupplied(f.flood_event.rainfall_mm)
    THEN EnterElevation([f EXCEPT !.rainfall = f.flood_event.rainfall_mm])
    ELSE [pc |-> "weather", frame |-> f]

\* flood_risk.py 58-77: the /weather request is over; the forecast is awaited
\* when the current rainfall is 0.
AfterWeather(f, wx) ==
    IF ForecastQueried(wx)
    THEN [pc |-> "forecast", frame |-> [f EXCEPT !.wx = wx]]
    ELSE EnterElevation([f EXCEPT
             !.rainfall = get_rainfall_data(f.flood_event.latitude,
                                            f.flood_event.longitude, wx, NoForecast).val])

\* flood_risk.py 67-71: the forecast request is over.
AfterForecast(f, fc) ==
    EnterElevation([f EXCEPT
        !.rainfall = get_rainfall_data(f.flood_event.latitude,
                                       f.flood_event.longitude, f.wx, fc).val])

\* flood_risk.py 145-156: the elevation request is over.
AfterElevation(f, el) ==
    [pc |-> "resolved",
     frame |-> [f EXCEPT
         !.elevation = get_elevation_data(f.flood_event.latitude, f.flood_event.longitude,
                                          google_elevation_api_key, el, 0).val]]

\* floods.py 171 (or an exception leaving the handler): the task is over.
Return(p, f, task, status) ==
    /\ frames' = (FrameOf(p) :> f) @@ frames
    /\ tasks' = (p :>
                    [task EXCEPT !.pc = "done",
                                 !.returned = [status |-> status, flood_id |-> f.flood_id,
                                               risk_data |-> f.risk_data,
                                               called |-> f.called,
                                               attempts |-> f.attempts]]) @@ tasks

\* send_flood_alert from the next send_sms on (notification.py 199-217): with
\* Twilio credentials each send_sms awaits its request; without them it
\* returns False at once.  The email loop then runs without a pause.
Dispatch(p, f, task) ==
    LET phones == Recipients(f.phone_numbers)
    IN  IF SmsRequested(notification_service) /\ Len(f.attempts) < Len(phones)
        THEN /\ frames' = (FrameOf(p) :> f) @@ frames
             /\ tasks' = (p :> [task EXCEPT !.pc = "sms"]) @@ tasks
        ELSE LET unsent == [i \in 1..Len(phones) |-> NoSms]
                 texts == IF SmsRequested(notification_service) THEN f.attempts
                          ELSE sms_loop(notification_service, f.phone_numbers, unsent)
                 asked == IF SmsRequested(notification_service) THEN task.sms ELSE unsent
             IN  \E smtp \in SmtpOutcomesFor(notification_service, f.emails) :
                    Return(p,
                           [f EXCEPT !.attempts =
                               texts \o Made(email_loop(notification_service, f.emails, smtp))],
                           [task EXCEPT !.sms = asked, !.smtp = smtp],
                           201)

\* The handler, had it sent the alerts before inserting the event.
Finish_alert_first(p, f, task) ==
    LET risk_data == Assess(f.rainfall, f.elevation)
        scored == [f EXCEPT !.risk_data = risk_data]
        stored == [scored EXCEPT !.flood_id = Len(flood_events) + 1]
        found == get_subscriptions_near_location(alert_subscriptions,
                     f.flood_event.latitude, f.flood_event.longitude, risk_data.severity)
    IN  IF risk_data.raised
        THEN /\ Return(p, scored, task, 500)
             /\ UNCHANGED flood_events
        ELSE IF ~AutoSendSeverity(risk_data.severity) \/ found.raised
                \/ ~NotifyMatched(found.ids)
        THEN /\ flood_events' = Append(flood_events,
                                       crud_create_flood_event(f.flood_event, risk_data))
             /\ Return(p, stored, task, IF found.raised THEN 500 ELSE 201)
        ELSE /\ UNCHANGED flood_events
             /\ Dispatch(p,
                              [scored EXCEPT
                                  !.called = TRUE,
                                  !.phone_numbers = PhonesOf(alert_subscriptions, found.ids),
                                  !.emails = EmailsOf(alert_subscriptions, found.ids)],
                              task)

\* floods.py 130-169 once both readings are resolved: the assessment, the
\* insert of the event, the severity gate, the subscription query and the
\* contact lists, up to the first await of send_flood_alert.
Finish(p, f, task) ==
    LET risk_data == Assess(f.rainfall, f.elevation)
        scored == [f EXCEPT !.risk_data = risk_data]
        stored == [scored EXCEPT !.flood_id = Len(flood_events) + 1]
        found == get_subscriptions_near_location(alert_subscriptions,
                     f.flood_event.latitude, f.flood_event.longitude, risk_data.severity)
    IN  IF risk_data.raised
        THEN /\ Return(p, scored, task, 500)
             /\ UNCHANGED flood_events
        ELSE /\ flood_events' = Append(flood_events,
                                       crud_create_flood_event(f.flood_event, risk_data))
             /\ IF ~AutoSendSeverity(risk_data.severity) THEN Return(p, stored, task, 201)
                ELSE IF found.raised THEN Return(p, stored, task, 500)
                ELSE IF ~NotifyMatched(found.ids) THEN Return(p, stored, task, 201)
                ELSE Dispatch(p,
                              [stored EXCEPT
                                  !.called = TRUE,
                                  !.phone_numbers = PhonesOf(alert_subscriptions, found.ids),
                                  !.emails = EmailsOf(alert_subscriptions, found.ids)],
                              task)

\* The coroutine goes on from an answer: to its next await, or through the
\* rest of the handler.
Continue(p, r, task) ==
    IF r.pc = "resolved"
    THEN Finish(p, r.frame, task)
    ELSE /\ frames' = (FrameOf(p) :> r.frame) @@ frames
         /\ tasks' = (p :> [task EXCEPT !.pc = r.pc]) @@ tasks
         /\ UNCHANGED flood_events

\* What a step of a task leaves alone.
restVars == << google_elevation_api_key, strHash, notification_service,
               last_subscription_id, alert_subscriptions, reactivated, api, alert,
               invocation, mock_calls, pipelineVars, scoreVars >>

\* POST /floods/ with a valid body arrives: a new task runs to its first await.
StartTask(flood_event) ==
    /\ Cardinality(DOMAIN tasks) < MaxTasks
    /\ Continue(Cardinality(DOMAIN tasks) + 1,
                EnterRainfall([NoFrame EXCEPT !.flood_event = flood_event]),
                [NoTask EXCEPT !.flood_event = flood_event])
    /\ UNCHANGED restVars

\* The /weather request of task p is over (flood_risk.py 56).
WeatherAnswers(p, wx) ==
    /\ p \in DOMAIN tasks
    /\ tasks[p].pc = "weather"
    /\ Continue(p, AfterWeather(frames[FrameOf(p)], wx), [tasks[p] EXCEPT !.wx = wx])
    /\ UNCHANGED restVars

\* The /forecast request of task p is over (flood_risk.py 101).
ForecastAnswers(p, fc) ==
    /\ p \in DOMAIN tasks
    /\ tasks[p].pc = "forecast"
    /\ Continue(p, AfterForecast(frames[FrameOf(p)], fc), [tasks[p] EXCEPT !.fc = fc])
    /\ UNCHANGED restVars

\* The elevation request of task p is over (flood_risk.py 143).
ElevationAnswers(p, el) ==
    /\ p \in DOMAIN tasks
    /\ tasks[p].pc = "elevation"
    /\ Continue(p, AfterElevation(frames[FrameOf(p)], el), [tasks[p] EXCEPT !.el = el])
    /\ UNCHANGED restVars

\* The Twilio request of the send_sms task p is in is over (notification.py
\* 49-65): its result is counted and send_flood_alert goes on.
SmsAnswers(p, resp) ==
    /\ p \in DOMAIN tasks
    /\ tasks[p].pc = "sms"
    /\ LET f == frames[FrameOf(p)]
           phone == Recipients(f.phone_numbers)[Len(f.attempts) + 1]
           attempt == [channel |-> "sms", to |-> phone,
                       requested |-> SmsRequested(notification_service),
                       sent |-> send_sms(notification_service, resp)]
       IN  Dispatch(p, [f EXCEPT !.attempts = Append(f.attempts, attempt)],
                    [tasks[p] EXCEPT !.sms = Append(tasks[p].sms, resp)])
    /\ UNCHANGED << restVars, flood_events >>

\* Bodies of the concurrent requests: at (0, 0) without overrides, at
\* (0.25, 0) with a rainfall override.
TaskFloodEvents ==
    { [latitude |-> 0, longitude |-> 0, rainfall_mm |-> PyNone, elevation_m |-> PyNone],
      [latitude |-> 250, longitude |-> 0, rainfall_mm |-> Num(35200),
       elevation_m |-> PyNone] }

\* /weather times out, reports no rain, 35.2 mm or a null amount (the scorer
\* then raises); the forecast times out or holds one entry of 20 mm.
TaskWeatherResponses ==
    { w \in WeatherResponses :
        \/ w.kind = "timeout"
        \/ w.kind = "ok" /\ w.has1h /\ w.v \in {PyNone, Num(0), Num(35200)} }

TaskForecastResponses ==
    { f \in ForecastResponses :
        \/ f.kind = "timeout"
        \/ f.kind = "ok" /\ f.list = << Rain3h(Num(20000)) >> }

\* The Twilio request times out or is answered 201.
TaskSmsResponses == { resp \in SmsResponses : resp.code # 401 }

NextTasks ==
    \/ \E flood_event \in TaskFloodEvents : StartTask(flood_event)
    \/ \E p \in 1..MaxTasks, wx \in TaskWeatherResponses : WeatherAnswers(p, wx)
    \/ \E p \in 1..MaxTasks, fc \in TaskForecastResponses : ForecastAnswers(p, fc)
    \/ \E p \in 1..MaxTasks, el \in ApiElevationResponses : ElevationAnswers(p, el)
    \/ \E p \in 1..MaxTasks, resp \in TaskSmsResponses : SmsAnswers(p, resp)

\* The subscribers stored before the requests arrive: at (0, 0) within 5 km,
\* with both contacts, from High; at (0.25, 0) within 30 km, phone only.
TaskSubscriptions ==
    << create_subscription([email |-> Str("ana@example.org"), phone |-> Str("+15550001"),
                            latitude |-> 0, longitude |-> 0, radius_km |-> 5000,
                            min_severity |-> "High"]),
       create_subscription([email |-> NoStr, phone |-> Str("+15550002"),
                            latitude |-> 250, longitude |-> 0, radius_km |-> 30000,
                            min_severity |-> "Low"]) >>

\* A live elevation key, the notification service with all credentials or
\* none, two subscribers, no event stored and no request in flight.
InitTasks ==
    /\ google_elevation_api_key = [none |-> FALSE, s |-> "AIza-live-key"]
    /\ notification_service \in
          {svc \in NotificationServices : SmsRequested(svc) = SmtpRequested(svc)}
    /\ strHash = << >>
    /\ pc = "idle"
    /\ request = NoRequest
    /\ calls = << >>
    /\ weather_response = NoWeather
    /\ forecast_response = NoForecast
    /\ elevation_response = NoElevation
    /\ rainfall = PyNone
    /\ elevation = PyNone
    /\ result = NoResult
    /\ scoreLast = NoScore
    /\ scoreKept = NoScore
    /\ last_subscription_id = Len(TaskSubscriptions)
    /\ alert_subscriptions = TaskSubscriptions
    /\ reactivated = {}
    /\ flood_events = << >>
    /\ api = NoApi
    /\ alert = NoAlert
    /\ invocation = NoInvocation
    /\ mock_calls = {}
    /\ tasks = NoTasks
    /\ frames = NoFrames

SpecTasks == InitTasks /\ [][NextTasks]_vars

-----------------------------------------------------------------------------
(* Properties of the scorer (checked under SpecScore) *)

\* The bins as the specification lists them: <<lower bound, points>>; a value
\* belongs to the bin with the greatest lower bound not above it.
RainfallBins == { <<0, 10>>, <<5000, 20>>, <<15000, 35>>, <<30000, 50>>, <<50000, 60>> }

ElevationBins == { <<0, 40>>, <<10000, 30>>, <<50000, 20>>, <<100000, 10>>, <<200000, 5>> }

BinPoints(bins, x) ==
    LET at == CHOOSE b \in bins :
                  /\ b[1] <= x
                  /\ \A c \in bins : c[1] <= x => c[1] <= b[1]
    IN  at[2]

SeverityRank(severity) ==
    CASE severity = "Low" -> 1
      [] severity = "Medium" -> 2
      [] severity = "High" -> 3
      [] severity = "Critical" -> 4

\* The tier the specification gives a total.
TierOfTotal(total) ==
    CHOOSE s \in {"Low", "Medium", "High", "Critical"} :
        /\ s = "Low" <=> total \in 0..25
        /\ s = "Medium" <=> total \in 26..50
        /\ s = "High" <=> total \in 51..75
        /\ s = "Critical" <=> total \in 76..100

\* C2: the severity is a function of the total alone: Low up to 25, Medium up to
\* 50, High up to 75, Critical above; two calls with the same total have the same
\* severity; the mapping puts 25 in Low, 26 in Medium, 75 in High, 76 in Critical.
C2_SeverityFromTotal ==
    /\ scoreLast.called => scoreLast.severity = TierOfTotal(scoreLast.risk_score)
    /\ (scoreLast.called /\ scoreKept.called /\ scoreLast.risk_score = scoreKept.risk_score)
           => scoreLast.severity = scoreKept.severity
    /\ \A total \in 0..100 : severity_of(total) = TierOfTotal(total)

\* A call whose total is exactly 25 (20 + 5), rated Low.
C2_Witness ==
    /\ scoreLast.called
    /\ scoreLast.risk_score = 25
    /\ scoreLast.severity = "Low"
    /\ scoreKept.called
    /\ scoreKept.risk_score = 75
    /\ scoreKept.severity = "High"

\* C4: with the elevation fixed the score and the severity rank do not decrease
\* when the rainfall grows; with the rainfall fixed they do not increase when the
\* elevation grows.
C4_Monotone ==
    (scoreKept.called /\ scoreLast.called) =>
        /\ (scoreKept.elevation_m = scoreLast.elevation_m
            /\ scoreKept.rainfall_mm <= scoreLast.rainfall_mm)
               => /\ scoreKept.risk_score <= scoreLast.risk_score
                  /\ SeverityRank(scoreKept.severity) <= SeverityRank(scoreLast.severity)
        /\ (scoreKept.rainfall_mm = scoreLast.rainfall_mm
            /\ scoreKept.elevation_m <= scoreLast.elevation_m)
               => /\ scoreKept.risk_score >= scoreLast.risk_score
                  /\ SeverityRank(scoreKept.severity) >= SeverityRank(scoreLast.severity)

\* Two calls at the same elevation, the later with more rain and a higher score.
C4_Witness ==
    /\ scoreKept.called
    /\ scoreLast.called
    /\ scoreKept.elevation_m = scoreLast.elevation_m
    /\ scoreKept.rainfall_mm < scoreLast.rainfall_mm
    /\ scoreKept.risk_score < scoreLast.risk_score
    /\ SeverityRank(scoreKept.severity) < SeverityRank(scoreLast.severity)

-----------------------------------------------------------------------------
(* Properties of the resolver and of calculate_flood_risk (checked under Spec) *)

Issued(name) == \E i \in 1..Len(calls) : calls[i] = name

FailureKinds == {"timeout", "status", "badjson"}

\* C3: every risk score calculate_flood_risk produces, from live values,
\* fallbacks or overrides, lies in [5, 100], hence in [0, 100].
C3_ScoreInRange ==
    (pc = "returned" /\ ~result.raised) =>
        /\ result.risk_score >= 5
        /\ result.risk_score <= 100
        /\ result.risk_score \in 0..100

\* The highest score, from a live rainfall reading and a mock elevation of 0.
C3_Witness ==
    /\ pc = "returned"
    /\ ~result.raised
    /\ result.risk_score = 100
    /\ Issued("weather")
    /\ request.elevation_override.none

\* C6: whatever the providers answer (success, timeout, error status, malformed
\* payload), calculate_flood_risk returns a reading and an assessment; nothing
\* propagates to the caller as an exception.
C6_NeverRaises ==
    pc = "returned" =>
        /\ ~result.raised
        /\ ~rainfall.none
        /\ ~elevation.none

\* The current-conditions response reports zero or no rainfall.
CurrentReportsNoRain ==
    /\ weather_response.kind = "ok"
    /\ \/ weather_response.rain = "absent"
       \/ weather_response.rain = "dict" /\ ~weather_response.has1h
       \/ weather_response.rain = "dict" /\ weather_response.has1h
          /\ weather_response.v = Num(0)

\* The forecast request failed, or its payload holds no precipitation in the
\* entries that are read.
ForecastFailedOrDry ==
    \/ forecast_response.kind \in FailureKinds
    \/ /\ forecast_response.kind = "ok"
       /\ \A i \in 1..Len(forecast_response.list) :
              i <= 4 => \/ ~forecast_response.list[i].rain
                        \/ ~forecast_response.list[i].has3h
                        \/ forecast_response.list[i].v = Num(0)

\* C7: when the current conditions report zero or no rainfall and the forecast
\* fails or yields no precipitation, get_rainfall_data returns the default
\* 5.0 mm, not 0.
C7_DefaultNotZero ==
    (pc = "returned" /\ Issued("weather") /\ CurrentReportsNoRain /\ Issued("forecast")
     /\ ForecastFailedOrDry)
        => rainfall = Num(Milli(5))

\* C8: the fallback chain is current -> forecast -> default: a failed
\* current-conditions request is followed by the forecast request, and the
\* 5.0 mm default is returned only after the forecast request.
C8_ForecastAfterFailedCurrent ==
    (pc = "returned" /\ Issued("weather") /\ weather_response.kind \in FailureKinds)
        => /\ Len(calls) >= 2
           /\ calls[1] = "weather"
           /\ calls[2] = "forecast"

\* C9: a supplied override, 0 included, is the reading's field verbatim and the
\* provider of that field is not called; with both overrides no provider is
\* called at all.
C9_OverrideVerbatim ==
    pc = "returned" =>
        /\ ~request.rainfall_override.none =>
              /\ rainfall = request.rainfall_override
              /\ ~Issued("weather") /\ ~Issued("forecast")
              /\ weather_response = NoWeather /\ forecast_response = NoForecast
              /\ ~result.raised => result.rainfall_mm = request.rainfall_override
        /\ ~request.elevation_override.none =>
              /\ elevation = request.elevation_override
              /\ ~Issued("elevation")
              /\ elevation_response = NoElevation
              /\ ~result.raised => result.elevation_m = request.elevation_override
        /\ (~request.rainfall_override.none /\ ~request.elevation_override.none)
              => calls = << >>

\* Both overrides are 0, with a live elevation key configured.
C9_Witness ==
    /\ pc = "returned"
    /\ request.rainfall_override = Num(0)
    /\ request.elevation_override = Num(0)
    /\ ~google_elevation_api_key.none
    /\ google_elevation_api_key.s = "AIza-live-key"
    /\ calls = << >>
    /\ result.rainfall_mm = Num(0)
    /\ result.elevation_m = Num(0)
    /\ result.risk_score = 50

\* The mock elevation of the request's coordinates in this process.
MockOfRequest ==
    _mock_elevation(request.latitude, request.longitude,
                    strHash[[latitude |-> request.latitude, longitude |-> request.longitude]])

RequestHashed ==
    [latitude |-> request.latitude, longitude |-> request.longitude] \in DOMAIN strHash

\* The elevation response is a failure, a non-OK status or an empty result list.
ElevationUnusable ==
    \/ elevation_response.kind \in FailureKinds
    \/ elevation_response.kind = "ok" /\ elevation_response.status # "OK"
    \/ elevation_response.kind = "ok" /\ elevation_response.results = << >>

\* C10: without an elevation key (unset, empty or the placeholder)
\* get_elevation_data returns the mock elevation and issues no request; with a
\* key, a failed request, a non-OK status or an empty result list also gives the
\* mock elevation.
C10_MockElevation ==
    (pc = "returned" /\ request.elevation_override.none) =>
        /\ (google_elevation_api_key.none
            \/ google_elevation_api_key.s \in {"", Placeholder})
               => /\ ~Issued("elevation")
                  /\ elevation_response = NoElevation
                  /\ RequestHashed
                  /\ elevation = Num(MockOfRequest)
        /\ (Issued("elevation") /\ ElevationUnusable)
               => /\ RequestHashed
                  /\ elevation = Num(MockOfRequest)

\* The placeholder key: the mock elevation 13 m - 50 m floored at 0, no request.
C10_Witness ==
    /\ pc = "returned"
    /\ request.elevation_override.none
    /\ google_elevation_api_key.s = Placeholder
    /\ ~Issued("elevation")
    /\ request.latitude = 1300
    /\ elevation = Num(0)

\* C11: every reading handed to the scorer has rainfall_mm >= 0 and
\* elevation_m >= 0, whether it comes from a request override, from the
\* elevation provider or from the mock.
C11_ReadingNonNegative ==
    (pc = "returned" /\ ~rainfall.none /\ ~elevation.none)
        => (rainfall.v >= 0 /\ elevation.v >= 0)

-----------------------------------------------------------------------------
(* Properties of the matcher (checked under SpecMatch) *)

\* The subscription with this id is among the rows the latest matcher call returned.
InMatched(id) == \E i \in 1..Len(api.matched) : api.matched[i] = id

\* Position of a tier in Low < Medium < High < Critical.
TierRank(name) == CHOOSE i \in 1..Len(Tiers) : Tiers[i] = name

\* sqrt(dlat^2 + dlon^2) * 111 <= radius_km, for a radius >= 0.
InsideRadius(s, latitude, longitude) ==
    /\ s.radius_km.v >= 0
    /\ ((s.latitude - latitude) * (s.latitude - latitude)
        + (s.longitude - longitude) * (s.longitude - longitude)) * 111 * 111
          <= s.radius_km.v * s.radius_km.v

\* C12: get_subscriptions_near_location returns exactly the stored
\* subscriptions that are active, lie within their radius_km of the event
\* (sqrt(dlat^2 + dlon^2) * 111 <= radius_km) and whose min_severity tier is
\* not above the event's tier; each of them once.
C12_MatchExactly ==
    api.op = "get_subscriptions_near_location" =>
        /\ ~api.raised
        /\ \A i, j \in 1..Len(api.matched) : api.matched[i] = api.matched[j] => i = j
        /\ \A id \in 1..MaxSubscriptions :
              InMatched(id) <=>
                  /\ id \in DOMAIN alert_subscriptions
                  /\ alert_subscriptions[id].is_active = Num(1)
                  /\ InsideRadius(alert_subscriptions[id], api.latitude, api.longitude)
                  /\ TierRank(api.severity)
                        >= TierRank(alert_subscriptions[id].min_severity)

\* A Critical event at (0, 0) matches the min_severity Low subscriber there and
\* the subscriber exactly 27.75 km away whose radius is 27.75 km, both, while
\* a stored row exists for each.
C12_Witness ==
    /\ api.op = "get_subscriptions_near_location"
    /\ api.severity = "Critical"
    /\ api.latitude = 0 /\ api.longitude = 0
    /\ DOMAIN alert_subscriptions = {1, 2}
    /\ alert_subscriptions[1].min_severity = "Low"
    /\ alert_subscriptions[1].latitude = 0
    /\ alert_subscriptions[2].latitude = 250
    /\ alert_subscriptions[2].radius_km = Num(27750)
    /\ api.matched = << 1, 2 >>

\* C13: a subscription that is switched off or deleted is never returned by a
\* later matcher call, whatever its distance and min_severity; one that was
\* switched off and on again is returned whenever distance and severity allow.
C13_InactiveNeverMatched ==
    api.op = "get_subscriptions_near_location" =>
        /\ \A i \in 1..Len(api.matched) :
              /\ api.matched[i] \in DOMAIN alert_subscriptions
              /\ alert_subscriptions[api.matched[i]].is_active # Num(0)
              /\ ~alert_subscriptions[api.matched[i]].is_active.none
        /\ \A id \in reactivated :
              (/\ InsideRadius(alert_subscriptions[id], api.latitude, api.longitude)
               /\ TierRank(api.severity) >= TierRank(alert_subscriptions[id].min_severity))
                  => InMatched(id)

\* Subscription 1 was switched off and on again and is matched; subscription 2,
\* at the event's location with min_severity Low, is switched off and is not.
C13_Witness ==
    /\ api.op = "get_subscriptions_near_location"
    /\ 1 \in reactivated
    /\ InMatched(1)
    /\ 2 \in DOMAIN alert_subscriptions
    /\ alert_subscriptions[2].is_active = Num(0)
    /\ alert_subscriptions[2].latitude = api.latitude
    /\ alert_subscriptions[2].longitude = api.longitude
    /\ alert_subscriptions[2].min_severity = "Low"
    /\ ~InMatched(2)

-----------------------------------------------------------------------------
(* Properties of send_flood_alert (checked under SpecDispatch) *)

\* The phone numbers and the emails the latest send_flood_alert call was given.
ListedPhones == IF alert.phone_numbers.none THEN << >> ELSE alert.phone_numbers.list

ListedEmails == IF alert.emails.none THEN << >> ELSE alert.emails.list

\* The attempts of one channel, in order.
AttemptsOn(channel) == SelectSeq(alert.attempts, LAMBDA a : a.channel = channel)

\* Number of attempts of a channel that returned the given bool.
Counted(channel, ok) ==
    Cardinality({i \in 1..Len(alert.attempts) :
                    /\ alert.attempts[i].channel = channel
                    /\ alert.attempts[i].sent = [raised |-> FALSE, ok |-> ok]})

\* C14: send_flood_alert attempts each listed phone number once and each
\* listed email once, in order, does not raise whatever the sends do, and
\* returns sms_sent + sms_failed = number of phone numbers and
\* emails_sent + emails_failed = number of emails.
C14_OneAttemptEach ==
    alert.called =>
        /\ ~alert.raised
        /\ Len(AttemptsOn("sms")) = Len(ListedPhones)
        /\ \A i \in 1..Len(ListedPhones) : AttemptsOn("sms")[i].to = ListedPhones[i]
        /\ Len(AttemptsOn("email")) = Len(ListedEmails)
        /\ \A i \in 1..Len(ListedEmails) : AttemptsOn("email")[i].to = ListedEmails[i]
        /\ Len(alert.attempts) = Len(ListedPhones) + Len(ListedEmails)
        /\ alert.results.sms_sent + alert.results.sms_failed = Len(ListedPhones)
        /\ alert.results.emails_sent + alert.results.emails_failed = Len(ListedEmails)

\* The same phone number listed twice, the first send failing and the second
\* succeeding, and two emails of which the first fails.
C14_Witness ==
    /\ alert.called
    /\ ListedPhones = << "+15550001", "+15550001" >>
    /\ ListedEmails = << "ana@example.org", "raj@example.org" >>
    /\ ~alert.attempts[1].sent.ok /\ alert.attempts[2].sent.ok
    /\ ~alert.attempts[3].sent.ok /\ alert.attempts[4].sent.ok
    /\ alert.results = [sms_sent |-> 1, sms_failed |-> 1,
                        emails_sent |-> 1, emails_failed |-> 1]

\* C15: each channel's counters depend on that channel's sends only: with the
\* SMS provider unconfigured or failing for every number, every SMS attempt is
\* in sms_failed and every email is still attempted and counted by its own
\* outcome; likewise with the email provider unconfigured or failing.
C15_ChannelsIndependent ==
    alert.called =>
        /\ alert.results.sms_sent = Counted("sms", TRUE)
        /\ alert.results.sms_failed = Counted("sms", FALSE)
        /\ alert.results.emails_sent = Counted("email", TRUE)
        /\ alert.results.emails_failed = Counted("email", FALSE)
        /\ Counted("sms", TRUE) + Counted("sms", FALSE) = Len(ListedPhones)
        /\ Counted("email", TRUE) + Counted("email", FALSE) = Len(ListedEmails)
        /\ ~SmsRequested(notification_service) =>
              /\ alert.results.sms_failed = Len(ListedPhones)
              /\ \A i \in 1..Len(alert.attempts) :
                    alert.attempts[i].channel = "sms" => ~alert.attempts[i].requested
        /\ ~SmtpRequested(notification_service) =>
              /\ alert.results.emails_failed = Len(ListedEmails)
              /\ \A i \in 1..Len(alert.attempts) :
                    alert.attempts[i].channel = "email" => ~alert.attempts[i].requested

\* One phone number whose send fails at a configured provider and one email
\* whose send succeeds.
C15_Witness ==
    /\ alert.called
    /\ SmsRequested(notification_service)
    /\ Len(ListedPhones) = 1 /\ Len(ListedEmails) = 1
    /\ alert.attempts[1].requested
    /\ alert.results = [sms_sent |-> 0, sms_failed |-> 1,
                        emails_sent |-> 1, emails_failed |-> 0]

-----------------------------------------------------------------------------
(* Properties of the endpoints (checked under SpecApi) *)

FloodOps == {"create_flood_event", "send_alert"}

C17_NoAlertBelowHigh ==
    (api.op \in FloodOps /\ alert.attempts # << >>)
        => api.severity \in {"High", "Critical"}

\* C17, amended: POST /floods/ queries subscriptions and attempts alerts only
\* when the severity it computed is High or Critical; POST
\* /notifications/send-alert attempts alerts for a stored event of any
\* severity, to the subscriptions whose min_severity that severity reaches.
C17_AutoAlertOnlyHigh ==
    /\ (api.op = "create_flood_event"
        /\ (api.queried \/ alert.called \/ alert.attempts # << >>))
          => api.severity \in {"High", "Critical"}
    /\ (api.op = "send_alert" /\ alert.attempts # << >>)
          => /\ api.severity \in TierNames
             /\ \A i \in 1..Len(api.matched) :
                   TierRank(api.severity)
                      >= TierRank(alert_subscriptions[api.matched[i]].min_severity)

\* POST /floods/ computes Critical and both channels of the subscriber are
\* attempted.
C17_Witness ==
    /\ api.op = "create_flood_event"
    /\ api.status = 201
    /\ api.severity = "Critical"
    /\ api.matched = << 1 >>
    /\ Len(alert.attempts) = 2

\* C18: in POST /floods/, when the subscription query fails or every send
\* fails, the event is stored and returned to the caller all the same.
C18_EventReturnedDespiteAlerting ==
    (api.op = "create_flood_event" /\ api.queried)
        => /\ api.persisted
           /\ api.flood_id \in 1..Len(flood_events)
           /\ api.status = 201
           /\ ~api.raised

\* C20: a POST /floods/ or POST /floods/calculate-risk request with latitude
\* outside [-90, 90] or longitude outside [-180, 180] is answered 422 and
\* nothing else happens: no provider request, no stored event, no alert.
C20_OutOfRangeRejected ==
    [][ (api'.op \in {"create_flood_event", "calculate_risk"} /\ api.op = "none"
         /\ ~(-90000 <= api'.latitude /\ api'.latitude <= 90000
              /\ -180000 <= api'.longitude /\ api'.longitude <= 180000))
           => /\ api'.status = 422
              /\ api'.calls = << >>
              /\ ~api'.persisted /\ ~api'.queried
              /\ flood_events' = flood_events
              /\ alert_subscriptions' = alert_subscriptions
              /\ strHash' = strHash
              /\ alert' = NoAlert ]_vars

\* POST /floods/ with latitude 200 is answered 422 while a subscriber is
\* stored at (0, 0) and no event is.
C20_Witness ==
    /\ api.op = "create_flood_event"
    /\ api.latitude = 200000
    /\ api.status = 422
    /\ api.calls = << >>
    /\ flood_events = << >>
    /\ DOMAIN alert_subscriptions = {1}
    /\ alert = NoAlert

-----------------------------------------------------------------------------
(* Termination of a pipeline run (checked under SpecCalls) *)

\* C19: every external call of a pipeline run (current weather, forecast,
\* elevation, SMS, SMTP) is bounded by a timeout, so that no call stays
\* pending when its provider never answers.
C19_EveryCallBounded ==
    invocation.in_flight # NoCall => ~invocation.in_flight.timeout.none

-----------------------------------------------------------------------------
(* The forecast value *)

\* The "3h" amount of the i-th forecast entry, in thousandths of a millimetre;
\* an entry that is missing, or has no rain amount, counts as 0.
ForecastAmount(i) ==
    IF /\ i <= Len(forecast_response.list)
       /\ forecast_response.list[i].rain
       /\ forecast_response.list[i].has3h
    THEN forecast_response.list[i].v.v
    ELSE 0

\* Every rain amount among the first four entries is a number.
ForecastAmountsNumeric ==
    \A i \in 1..Len(forecast_response.list) :
        (i <= 4 /\ forecast_response.list[i].rain /\ forecast_response.list[i].has3h)
            => ~forecast_response.list[i].v.none

\* C23: when the forecast call succeeds, the value _get_forecast_rainfall
\* returns is the sum of the 3-hour rain amounts of at most the first four
\* entries divided by 4 (0 when that sum is 0); entries after the fourth have
\* no influence.
C23_ForecastIsQuarterOfFirstFour ==
    (pc = "returned" /\ forecast_response.kind = "ok" /\ ForecastAmountsNumeric) =>
        /\ Issued("forecast")
        /\ rainfall = Num((ForecastAmount(1) + ForecastAmount(2)
                           + ForecastAmount(3) + ForecastAmount(4)) \div 4)
        /\ (ForecastAmount(1) + ForecastAmount(2)
            + ForecastAmount(3) + ForecastAmount(4) = 0) => rainfall = Num(0)

\* Five entries of 20 mm each: the value is 80 / 4 = 20 mm, the fifth is not read.
C23_Witness ==
    /\ pc = "returned"
    /\ forecast_response.kind = "ok"
    /\ Len(forecast_response.list) = 5
    /\ \A i \in 1..5 : forecast_response.list[i] = Rain3h(Num(20000))
    /\ rainfall = Num(20000)

-----------------------------------------------------------------------------
(* The mock elevation (checked under SpecMock) *)

\* C24: the mock elevation is max(0, |latitude| * 10 + offset) with an offset
\* in [-50, 50] that is a function of (latitude, longitude) only: the same
\* coordinates give the same mock elevation across calls and across runs.
C24_MockSameAcrossRuns ==
    /\ \A c \in mock_calls :
          \E offset \in -50..50 :
              c.elevation = Max(0, Abs(c.latitude) * 10 + Milli(offset))
    /\ \A c, d \in mock_calls :
          (c.latitude = d.latitude /\ c.longitude = d.longitude)
              => c.elevation = d.elevation

-----------------------------------------------------------------------------
(* The factor labels (checked under Spec) *)

\* C25: the factor labels follow the thresholds of the score bins: rainfall is
\* "High" exactly in the bins that start at 30 mm or more, "Medium" in
\* [15, 30) and "Low" below 15; elevation is "High risk" below 50 m,
\* "Medium risk" in [50, 100) and "Low risk" from 100 m.
C25_LabelsFollowBins ==
    (pc = "returned" /\ ~result.raised) =>
        /\ (rainfall.v >= 30000) <=> (result.rainfall_contribution = "High")
        /\ (rainfall.v >= 15000 /\ rainfall.v < 30000)
               <=> (result.rainfall_contribution = "Medium")
        /\ (rainfall.v < 15000) <=> (result.rainfall_contribution = "Low")
        /\ (elevation.v < 50000) <=> (result.elevation_contribution = "High risk")
        /\ (elevation.v >= 50000 /\ elevation.v < 100000)
               <=> (result.elevation_contribution = "Medium risk")
        /\ (elevation.v >= 100000) <=> (result.elevation_contribution = "Low risk")

-----------------------------------------------------------------------------
(* The endpoints without effects (checked under SpecApi) *)

\* C26: a calculate-risk request, whatever severity it computes, persists no
\* flood event, reads and changes no subscription and attempts no SMS or
\* email: both tables are the same before and after it.
C26_CalculateRiskNoEffects ==
    [][(api.op = "none" /\ api'.op = "calculate_risk") =>
          /\ flood_events' = flood_events
          /\ alert_subscriptions' = alert_subscriptions
          /\ last_subscription_id' = last_subscription_id
          /\ ~api'.persisted
          /\ ~api'.queried
          /\ api'.matched = << >>
          /\ ~alert'.called
          /\ alert'.attempts = << >>]_vars

\* A calculate-risk answer of severity High or Critical while an event and an
\* active subscriber at the same place are stored.
C26_Witness ==
    /\ api.op = "calculate_risk"
    /\ api.status = 200
    /\ api.severity \in {"High", "Critical"}
    /\ Len(flood_events) = 1
    /\ \E id \in DOMAIN alert_subscriptions :
          /\ ActiveRow(alert_subscriptions[id])
          /\ alert_subscriptions[id].latitude = api.latitude
    /\ ~alert.called

\* C27: the nearby-events query succeeds for every input its endpoint
\* accepts (latitude in [-90, 90], 0 included, longitude in [-180, 180],
\* radius_km in [0.1, 50]): it returns stored events inside the bounding box
\* and never fails.
C27_NearbyNeverFails ==
    (/\ api.op = "get_nearby_flood_events"
     /\ ValidLatitude(api.latitude)
     /\ ValidLongitude(api.longitude)
     /\ ValidRadius(api.radius_km)) =>
        /\ ~api.raised
        /\ api.status = 200
        /\ \A i \in 1..Len(api.matched) :
              /\ api.matched[i] \in 1..Len(flood_events)
              /\ Abs(flood_events[api.matched[i]].latitude - api.latitude) * 111
                    <= api.radius_km

-----------------------------------------------------------------------------
(* Stored subscriptions (checked under SpecSubs) *)

\* C21: after any sequence of subscribe and update-subscription operations
\* every stored subscription has radius_km > 0; a non-positive radius is
\* rejected on every path that writes radius_km.
C21_StoredRadiusPositive ==
    \A id \in DOMAIN alert_subscriptions :
        /\ ~alert_subscriptions[id].radius_km.none
        /\ alert_subscriptions[id].radius_km.v > 0

\* C28: a subscribe request with neither email nor phone is answered 400 and
\* stores nothing, and after any sequence of subscribe and update-subscription
\* operations no stored subscription has both email and phone empty.
C28_EveryRowHasContact ==
    /\ (api.op = "subscribe" /\ api.status = 400) => api.subscription_id = 0
    /\ \A id \in DOMAIN alert_subscriptions :
          \/ Truthy(alert_subscriptions[id].email)
          \/ Truthy(alert_subscriptions[id].phone)

\* C29: a subscription is matched only by an event whose tier is at least the
\* tier the subscriber asked for; a subscription whose min_severity is not one
\* of the four tiers is never treated as asking for Low, so no Low event
\* matches it.
C29_UnknownTierNeverLow ==
    (api.op = "get_subscriptions_near_location" /\ ~api.raised) =>
        \A i \in 1..Len(api.matched) :
            LET sub == alert_subscriptions[api.matched[i]]
            IN  /\ sub.min_severity \in TierNames
                       => TierRank(api.severity) >= TierRank(sub.min_severity)
                /\ sub.min_severity \notin TierNames => api.severity # "Low"

-----------------------------------------------------------------------------
(* Concurrent requests (checked under SpecTasks) *)

\* The assessment calculate_flood_risk computes for the body of task t and the
\* provider answers t received, in one uninterrupted run.
AloneRisk(t) ==
    calculate_flood_risk(t.flood_event.latitude, t.flood_event.longitude,
                         t.flood_event.rainfall_mm, t.flood_event.elevation_m,
                         google_elevation_api_key, t.wx, t.fc, t.el, 0).result

\* The sends an uninterrupted run makes for that assessment and the answers
\* t received from the SMS and SMTP providers.
AloneAttempts(t) ==
    LET risk == AloneRisk(t)
        found == get_subscriptions_near_location(alert_subscriptions,
                     t.flood_event.latitude, t.flood_event.longitude, risk.severity)
    IN  IF risk.raised \/ ~AutoSendSeverity(risk.severity) THEN << >>
        ELSE IF found.raised \/ ~NotifyMatched(found.ids) THEN << >>
        ELSE send_flood_alert(notification_service,
                              PhonesOf(alert_subscriptions, found.ids),
                              EmailsOf(alert_subscriptions, found.ids),
                              t.sms, t.smtp).attempts

\* C22: create_flood_event requests interleaved at their awaits do not
\* interact: each returns the assessment, stores the event and attempts
\* exactly the recipients, in order, that it would when run alone with the
\* same provider answers.
C22_TasksDoNotInteract ==
    \A p \in DOMAIN tasks :
        tasks[p].pc = "done" =>
            /\ tasks[p].returned.risk_data = AloneRisk(tasks[p])
            /\ tasks[p].returned.attempts = AloneAttempts(tasks[p])
            /\ ~AloneRisk(tasks[p]).raised =>
                  /\ tasks[p].returned.flood_id \in 1..Len(flood_events)
                  /\ flood_events[tasks[p].returned.flood_id]
                        = crud_create_flood_event(tasks[p].flood_event,
                                                  AloneRisk(tasks[p]))

\* Two requests for different places that overlapped: the one that arrived
\* first stored its event second; one alerted two subscribers (two SMS, one
\* email), the other one subscriber.
C22_Witness ==
    /\ Cardinality(DOMAIN tasks) = 2
    /\ tasks[1].pc = "done"
    /\ tasks[2].pc = "done"
    /\ tasks[1].flood_event.latitude # tasks[2].flood_event.latitude
    /\ tasks[1].returned.flood_id = 2
    /\ tasks[2].returned.flood_id = 1
    /\ Len(tasks[1].returned.attempts) = 3
    /\ Len(tasks[2].returned.attempts) = 1

\* The frame of task p.
Locals(p) == frames[FrameOf(p)]

\* C30: in create_flood_event the steps run in the order resolve, score,
\* persist, match, dispatch: nothing is stored or sent while a reading is
\* still awaited, every request that is answered 201 has its event stored
\* exactly once (one whose scoring raised has none and sent nothing), and
\* whenever alerts are being or have been sent the event is already stored
\* with the severity and score the alert text carries.
C30_PersistBeforeDispatch ==
    /\ \A p \in DOMAIN tasks :
          /\ tasks[p].pc \in {"weather", "forecast", "elevation"} =>
                /\ Locals(p).flood_id = 0
                /\ ~Locals(p).called
                /\ Locals(p).attempts = << >>
          /\ (Locals(p).called \/ Locals(p).attempts # << >>) =>
                /\ Locals(p).flood_id \in 1..Len(flood_events)
                /\ flood_events[Locals(p).flood_id].severity
                      = Locals(p).risk_data.severity
                /\ flood_events[Locals(p).flood_id].risk_score
                      = Locals(p).risk_data.risk_score
                /\ flood_events[Locals(p).flood_id].latitude
                      = tasks[p].flood_event.latitude
          /\ (tasks[p].pc = "done" /\ tasks[p].returned.status = 201) =>
                tasks[p].returned.flood_id \in 1..Len(flood_events)
          /\ (tasks[p].pc = "done" /\ tasks[p].returned.risk_data.raised) =>
                /\ Locals(p).flood_id = 0
                /\ Locals(p).attempts = << >>
    /\ \A p, q \in DOMAIN tasks :
          (p # q /\ Locals(p).flood_id # 0) => Locals(p).flood_id # Locals(q).flood_id
    /\ Len(flood_events) = Cardinality({p \in DOMAIN tasks : Locals(p).flood_id # 0})

\* A request waits for the answer to its second SMS: its Critical event is
\* stored, one SMS has been attempted.
C30_Witness ==
    \E p \in DOMAIN tasks :
        /\ tasks[p].pc = "sms"
        /\ Len(Locals(p).attempts) = 1
        /\ Locals(p).flood_id \in 1..Len(flood_events)
        /\ flood_events[Locals(p).flood_id].severity = "Critical"
        /\ Locals(p).risk_data.risk_score = 80

====
